---------------------------- MODULE Spec2Model ----------------------------
(***************************************************************************)
(* Model of the AI help-desk backend (backend/app): the guardrail engine,  *)
(* the sentiment heuristic, the tier and severity classifier, the ticket   *)
(* generator, the session store, the ticket API and the chat endpoint.     *)
(*                                                                         *)
(* Conventions                                                             *)
(*  - Python str values are TLA+ strings; the str operations the code uses *)
(*    (lower, upper, `in`, split, slicing, re.search) are computed on the  *)
(*    characters.  Messages hold no newline, so the regex `.` matches      *)
(*    every character of a message.                                        *)
(*  - Python floats in [0, 1] are integers in 0..100 (hundredths).         *)
(*  - Optional[T] is a sequence: <<>> is None and <<v>> is the value v.    *)
(*  - uuid4 primary keys are fresh strings built from a row counter.       *)
(*  - datetime.utcnow is the logical clock `now`, ticked by every insert.  *)
(***************************************************************************)
EXTENDS Integers, Sequences, FiniteSets, TLC

VARIABLES
    conversations,      \* table conversations, in insertion order
    messages,           \* table messages, in insertion order
    tickets,            \* table tickets, in insertion order
    guardrail_events,   \* table guardrail_events, in insertion order
    kb,                 \* what the retrieval backend returns (external)
    now,                \* logical clock behind created_at / updated_at
    chats,              \* number of chat requests served
    updates,            \* number of update-status requests served
    last,               \* the last request served and its response
    call,               \* the last pure-function call and its result
    handlers,           \* the chat requests in flight, where requests interleave
    ingestion           \* the run of an ingestion script: its position and its session

vars == <<conversations, messages, tickets, guardrail_events, kb, now,
          chats, updates, last, call, handlers, ingestion>>

None == <<>>
Some(v) == <<v>>

-----------------------------------------------------------------------------
(* Python str operations                                                   *)

\* str.lower and str.upper on the letters; every other character is kept
LowerOf ==
    [A |-> "a", B |-> "b", C |-> "c", D |-> "d", E |-> "e", F |-> "f", G |-> "g",
     H |-> "h", I |-> "i", J |-> "j", K |-> "k", L |-> "l", M |-> "m", N |-> "n",
     O |-> "o", P |-> "p", Q |-> "q", R |-> "r", S |-> "s", T |-> "t", U |-> "u",
     V |-> "v", W |-> "w", X |-> "x", Y |-> "y", Z |-> "z"]

UpperOf ==
    [a |-> "A", b |-> "B", c |-> "C", d |-> "D", e |-> "E", f |-> "F", g |-> "G",
     h |-> "H", i |-> "I", j |-> "J", k |-> "K", l |-> "L", m |-> "M", n |-> "N",
     o |-> "O", p |-> "P", q |-> "Q", r |-> "R", s |-> "S", t |-> "T", u |-> "U",
     v |-> "V", w |-> "W", x |-> "X", y |-> "Y", z |-> "Z"]

CharAt(s, i) == SubSeq(s, i, i)

UpperLetters == DOMAIN LowerOf
LowerLetters == DOMAIN UpperOf

\* s from position start on, the letters at the positions `at` replaced by
\* their images in the table
RECURSIVE Replaced(_, _, _, _)
Replaced(s, start, at, table) ==
    IF at = {} THEN SubSeq(s, start, Len(s))
    ELSE LET i == CHOOSE i \in at : \A j \in at : i <= j
         IN  SubSeq(s, start, i - 1) \o table[CharAt(s, i)]
                \o Replaced(s, i + 1, at \ {i}, table)

\* str.lower
Lower(s) ==
    Replaced(s, 1, {i \in 1..Len(s) : CharAt(s, i) \in UpperLetters}, LowerOf)

\* str.upper
Upper(s) ==
    Replaced(s, 1, {i \in 1..Len(s) : CharAt(s, i) \in LowerLetters}, UpperOf)

\* k in s
Contains(s, k) ==
    \E i \in 1..(Len(s) - Len(k) + 1) : SubSeq(s, i, i + Len(k) - 1) = k

\* s.find(k) counted from 1: the first position of k in s, 0 for none
Find(s, k) ==
    IF Contains(s, k)
    THEN CHOOSE i \in 1..(Len(s) - Len(k) + 1) :
            /\ SubSeq(s, i, i + Len(k) - 1) = k
            /\ \A j \in 1..(i - 1) : SubSeq(s, j, j + Len(k) - 1) # k
    ELSE 0

Whitespace == {" ", "\n", "\t", "\r"}

\* the first position at or after i, and the last at or before i, of a
\* character that is not whitespace
RECURSIVE FirstInked(_, _)
FirstInked(s, i) ==
    IF i > Len(s) \/ CharAt(s, i) \notin Whitespace THEN i ELSE FirstInked(s, i + 1)

RECURSIVE LastInked(_, _)
LastInked(s, i) ==
    IF i < 1 \/ CharAt(s, i) \notin Whitespace THEN i ELSE LastInked(s, i - 1)

\* s.strip()
Strip(s) ==
    IF FirstInked(s, 1) > Len(s) THEN ""
    ELSE SubSeq(s, FirstInked(s, 1), LastInked(s, Len(s)))

\* any(k in s for k in keywords)
ContainsAny(s, keywords) == \E j \in 1..Len(keywords) : Contains(s, keywords[j])

\* s[:n]
Prefix(s, n) == SubSeq(s, 1, IF Len(s) < n THEN Len(s) ELSE n)

\* len(s.split()): the maximal runs of non-blank characters
WordCount(s) ==
    Cardinality({i \in 1..Len(s) :
        /\ CharAt(s, i) # " "
        /\ (i = 1 \/ CharAt(s, i - 1) = " ")})

\* re.search of the pattern parts[1].*parts[2].* ... .*parts[n] in s at or
\* after position start, every part being a literal
RECURSIVE SearchFrom(_, _, _)
SearchFrom(parts, s, start) ==
    IF parts = <<>> THEN TRUE
    ELSE LET p == Head(parts) IN
         \E i \in start..(Len(s) - Len(p) + 1) :
            /\ SubSeq(s, i, i + Len(p) - 1) = p
            /\ SearchFrom(Tail(parts), s, i + Len(p))

\* re.search(pattern, s): a pattern is a sequence of alternatives, each a
\* sequence of literal parts joined by .*
re_search(pattern, s) == \E a \in 1..Len(pattern) : SearchFrom(pattern[a], s, 1)

Min(a, b) == IF a < b THEN a ELSE b
Max(a, b) == IF a > b THEN a ELSE b

\* round(n / d) for n >= 0 and d > 0: the nearest integer, a half to the even one
Round(n, d) ==
    LET q == n \div d
        r == n % d
    IN  IF 2 * r < d THEN q
        ELSE IF 2 * r > d THEN q + 1
        ELSE IF q % 2 = 0 THEN q ELSE q + 1

Least(S) == CHOOSE i \in S : \A j \in S : i <= j

\* s.split() from position start on: the maximal runs of characters that are
\* not whitespace, in order
RECURSIVE SplitFrom(_, _)
SplitFrom(s, start) ==
    LET inked == {i \in start..Len(s) : CharAt(s, i) \notin Whitespace} IN
    IF inked = {} THEN <<>>
    ELSE LET first == Least(inked)
             blanks == {i \in first..Len(s) : CharAt(s, i) \in Whitespace}
             stop == IF blanks = {} THEN Len(s) + 1 ELSE Least(blanks)
         IN  <<SubSeq(s, first, stop - 1)>> \o SplitFrom(s, stop)

Split(s) == SplitFrom(s, 1)

\* sep.join(words)
RECURSIVE Join(_, _)
Join(words, sep) ==
    IF words = <<>> THEN ""
    ELSE IF Len(words) = 1 THEN words[1]
    ELSE words[1] \o sep \o Join(Tail(words), sep)

\* s.replace(old, new) from position start on: the occurrences of old, left
\* to right and without overlap
RECURSIVE ReplaceFrom(_, _, _, _)
ReplaceFrom(s, start, old, new) ==
    LET hits == {i \in start..(Len(s) - Len(old) + 1) :
                    SubSeq(s, i, i + Len(old) - 1) = old}
    IN  IF hits = {} THEN SubSeq(s, start, Len(s))
        ELSE SubSeq(s, start, Least(hits) - 1) \o new
                \o ReplaceFrom(s, Least(hits) + Len(old), old, new)

ReplaceAll(s, old, new) == ReplaceFrom(s, 1, old, new)

\* for phrase in phrases: s = s.replace(phrase, "")
RECURSIVE RemoveAll(_, _)
RemoveAll(s, phrases) ==
    IF phrases = <<>> THEN s
    ELSE RemoveAll(ReplaceAll(s, Head(phrases), ""), Tail(phrases))

\* seq[:n]
Top(seq, n) == SubSeq(seq, 1, Min(n, Len(seq)))

-----------------------------------------------------------------------------
(* Guardrail engine (services/guardrail.py)                                *)

HostReason == "Request to access host machine is not allowed"
HypervisorReason == "Modifying hypervisor settings is not allowed"
LoggingReason == "Disabling logging is not allowed"
KernelPanicReason == "Kernel panic debugging requires specialized support"
EscalationReason == "Escalation rules cannot be overridden"
AdminReason == "This operation requires administrator privileges"

\* one regex and its reason
Rule(pattern, reason) == [pattern |-> pattern, reason |-> reason]

BLOCKED_PATTERNS == <<
    \* rule 1: host machine access
    Rule(<< <<"access", "host", "machine">> >>, HostReason),
    Rule(<< <<"host", "machine", "access">> >>, HostReason),
    Rule(<< <<"behind", "vm">> >>, "Accessing host machine behind VM is not allowed"),
    Rule(<< <<"hypervisor", "setting">> >>, HypervisorReason),
    Rule(<< <<"hypervisor", "config">> >>, HypervisorReason),
    \* rule 2: logging disable
    Rule(<< <<"disable", "log">> >>, LoggingReason),
    Rule(<< <<"turn", "off", "log">> >>, LoggingReason),
    Rule(<< <<"stop", "log">> >>, LoggingReason),
    Rule(<< <<"quiet", "mode">> >>, LoggingReason),
    \* rule 3: destructive actions
    Rule(<< <<"reset", "all", "environment">> >>,
         "Resetting all environments is a destructive action and not allowed"),
    Rule(<< <<"delete", "all", "user">> >>, "Deleting all user data is not allowed"),
    Rule(<< <<"wipe", "all">> >>, "Wiping all data is not allowed"),
    Rule(<< <<"format", "all">> >>, "Formatting all drives is not allowed"),
    \* rule 4: system file editing
    Rule(<< <<"/etc/hosts">> >>, "Editing /etc/hosts file is not allowed"),
    Rule(<< <<"edit", "hosts", "file">> >>, "Editing hosts file is not allowed"),
    Rule(<< <<"modify", "hosts">> >>, "Modifying hosts file is not allowed"),
    \* rule 5: kernel-level operations
    Rule(<< <<"kernel", "panic", "fix">>, <<"kernel", "panic", "debug">>,
            <<"kernel", "panic", "repair">>, <<"kernel", "panic", "modify">>,
            <<"kernel", "panic", "command">>,
            <<"kernel", "panic", "how", "to", "fix">> >>, KernelPanicReason),
    Rule(<< <<"kernel", "debug">> >>, "Kernel-level debugging is not allowed"),
    Rule(<< <<"kernel", "config">> >>, "Kernel configuration changes are not allowed"),
    Rule(<< <<"how", "to", "fix", "kernel", "panic">> >>, KernelPanicReason),
    \* rule 6: unauthorized system access
    Rule(<< <<"root", "access">> >>, "Root access requests are not allowed"),
    Rule(<< <<"sudo", "privilege">> >>, "Elevated privilege requests are not allowed"),
    Rule(<< <<"admin", "override">> >>, "Admin override requests are not allowed"),
    \* rule 7: override escalation attempts
    Rule(<< <<"don", "t", "escalate">> >>, EscalationReason),
    Rule(<< <<"don't", "escalate">> >>, EscalationReason),
    Rule(<< <<"no", "escalation">> >>, EscalationReason),
    Rule(<< <<"skip", "escalation">> >>, EscalationReason) >>

\* rule 8: the patterns checked for the roles that are not privileged
admin_keywords == <<
    << <<"system", "config">> >>,
    << <<"database", "access">> >>,
    << <<"backup", "restore">> >>,
    << <<"security", "policy">> >> >>

PrivilegedRoles == {"admin", "support_engineer"}

\* the indices of the BLOCKED_PATTERNS that match the lowercased message
MatchingPatterns(message_lower) ==
    {i \in 1..Len(BLOCKED_PATTERNS) : re_search(BLOCKED_PATTERNS[i].pattern, message_lower)}

\* some admin-only pattern matches the lowercased message
MatchesAdminKeyword(message_lower) ==
    \E j \in 1..Len(admin_keywords) : re_search(admin_keywords[j], message_lower)

Verdict(blocked, reason) == [blocked |-> blocked, reason |-> reason]

\* the guardrail with the role looked at first: a privileged role is exempt
\* from every rule
check_guardrail_PrivilegedExempt(message, user_role) ==
    LET message_lower == Lower(message)
        hits == MatchingPatterns(message_lower)
    IN
    IF Lower(user_role) \in PrivilegedRoles THEN Verdict(FALSE, None)
    ELSE IF hits # {}
         THEN LET first == CHOOSE i \in hits : \A j \in hits : i <= j
              IN  Verdict(TRUE, Some(BLOCKED_PATTERNS[first].reason))
         ELSE IF MatchesAdminKeyword(message_lower)
              THEN Verdict(TRUE, Some(AdminReason))
              ELSE Verdict(FALSE, None)

check_guardrail(message, user_role) ==
    LET message_lower == Lower(message)
        hits == MatchingPatterns(message_lower)
    IN
    IF hits # {}
    THEN LET first == CHOOSE i \in hits : \A j \in hits : i <= j
         IN  Verdict(TRUE, Some(BLOCKED_PATTERNS[first].reason))
    ELSE IF Lower(user_role) \notin PrivilegedRoles /\ MatchesAdminKeyword(message_lower)
         THEN Verdict(TRUE, Some(AdminReason))
         ELSE Verdict(FALSE, None)

-----------------------------------------------------------------------------
(* Sentiment heuristic (services/sentiment.py); every pattern is a literal *)

FRUSTRATED_PATTERNS == <<
    "frustrated", "angry", "annoyed", "upset", "irritated",
    "doesn't work", "didn't work", "not working", "still doesn't",
    "not resolved", "doesn't help", "nothing works", "still not",
    "useless", "waste of time", "terrible", "awful" >>

SATISFIED_PATTERNS == <<
    "thank", "thanks", "appreciate", "helpful", "great", "good",
    "perfect", "excellent", "works", "resolved", "solved" >>

URGENT_PATTERNS == <<
    "urgent", "asap", "as soon as possible", "immediately", "now",
    "emergency", "critical", "important", "need help now" >>

frustration_keywords == <<"didn't work", "not working", "still doesn't", "not resolved">>

\* sum(1 for pattern in patterns if re.search(pattern, s))
CountMatches(patterns, s) == Cardinality({j \in 1..Len(patterns) : Contains(s, patterns[j])})

\* the score of analyze_sentiment, in hundredths
analyze_sentiment(message, unresolved_attempts) ==
    LET message_lower == Lower(message)
        frustrated_matches == CountMatches(FRUSTRATED_PATTERNS, message_lower)
        score1 == IF frustrated_matches > 0
                  THEN Min(50 + frustrated_matches * 15, 100)
                  ELSE 0
        score2 == IF score1 < 30 /\ CountMatches(SATISFIED_PATTERNS, message_lower) > 0
                  THEN 20
                  ELSE score1
        score3 == IF ContainsAny(message_lower, frustration_keywords) /\ unresolved_attempts > 0
                  THEN Max(score2, Min(30 + unresolved_attempts * 20, 90))
                  ELSE score2
        score4 == IF ContainsAny(message_lower, URGENT_PATTERNS) /\ unresolved_attempts >= 2
                  THEN Max(score3, 80)
                  ELSE score3
    IN  score4

-----------------------------------------------------------------------------
(* Tier and severity classifier (services/tier_routing.py)                 *)

CRITICAL_KEYWORDS == <<
    "crash", "crashed", "panic", "frozen", "froze", "lost work", "lost progress",
    "kernel panic", "system down", "cannot access", "completely broken",
    "urgent", "emergency", "asap", "immediately" >>

MEDIUM_KEYWORDS == <<
    "not working", "issue", "problem", "error", "failed", "failure",
    "slow", "lag", "timeout", "redirect", "redirected" >>

LOW_KEYWORDS == <<
    "question", "how to", "guide", "tutorial", "help with", "explain",
    "information", "documentation" >>

AmbiguityWords == <<"environment", "toolset", "wrong", "incorrect", "different">>

\* one step of the severity boost: LOW -> MEDIUM -> HIGH
Boost(severity) ==
    IF severity = "LOW" THEN "MEDIUM"
    ELSE IF severity = "MEDIUM" THEN "HIGH"
    ELSE severity

Classification(tier, severity, needs_escalation) ==
    [tier |-> tier, severity |-> severity, needs_escalation |-> needs_escalation]

\* the tier with the TIER_1 confidence threshold still at 0.8
determine_tier_OldThreshold(severity, kb_match_confidence, sentiment_score, has_kb_match, unresolved_attempts, is_ambiguous_environment_query) ==
    IF \/ severity = "CRITICAL"
       \/ (~has_kb_match /\ ~is_ambiguous_environment_query)
       \/ (kb_match_confidence < 20 /\ ~has_kb_match /\ ~is_ambiguous_environment_query)
       \/ sentiment_score > 70
       \/ unresolved_attempts >= 3
    THEN "TIER_3"
    ELSE IF /\ has_kb_match
            /\ kb_match_confidence >= 80
            /\ severity \in {"LOW", "MEDIUM"}
            /\ sentiment_score < 50
            /\ unresolved_attempts < 2
         THEN "TIER_1"
         ELSE "TIER_2"

\* lines 78-94: the tier
determine_tier(severity, kb_match_confidence, sentiment_score, has_kb_match, unresolved_attempts, is_ambiguous_environment_query) ==
    IF \/ severity = "CRITICAL"
       \/ (~has_kb_match /\ ~is_ambiguous_environment_query)
       \/ (kb_match_confidence < 20 /\ ~has_kb_match /\ ~is_ambiguous_environment_query)
       \/ sentiment_score > 70
       \/ unresolved_attempts >= 3
    THEN "TIER_3"
    ELSE IF /\ has_kb_match
            /\ kb_match_confidence >= 30
            /\ severity \in {"LOW", "MEDIUM"}
            /\ sentiment_score < 50
            /\ unresolved_attempts < 2
         THEN "TIER_1"
         ELSE "TIER_2"

\* the escalation need with the override for ambiguous queries applied to
\* every severity
determine_escalation_AmbiguousAlways(tier, severity, kb_match_confidence, sentiment_score, has_kb_match, unresolved_attempts, is_ambiguous_environment_query) ==
    IF is_ambiguous_environment_query THEN FALSE
    ELSE IF has_kb_match /\ kb_match_confidence >= 30
            /\ severity \in {"LOW", "MEDIUM"} /\ sentiment_score < 50
         THEN FALSE
         ELSE \/ tier = "TIER_3"
              \/ severity = "CRITICAL"
              \/ sentiment_score > 70
              \/ unresolved_attempts >= 2

\* lines 96-115: the escalation need and its two overrides
determine_escalation(tier, severity, kb_match_confidence, sentiment_score, has_kb_match, unresolved_attempts, is_ambiguous_environment_query) ==
    LET escalation0 == \/ tier = "TIER_3"
                       \/ severity = "CRITICAL"
                       \/ (~has_kb_match /\ kb_match_confidence < 20
                            /\ ~is_ambiguous_environment_query)
                       \/ sentiment_score > 70
                       \/ unresolved_attempts >= 2
        escalation1 == IF /\ has_kb_match
                          /\ kb_match_confidence >= 30
                          /\ severity \in {"LOW", "MEDIUM"}
                          /\ sentiment_score < 50
                       THEN FALSE
                       ELSE escalation0
    IN  IF is_ambiguous_environment_query /\ severity # "CRITICAL"
        THEN FALSE
        ELSE escalation1

\* lines 47-70: the severity from the keywords and the two boosts
determine_severity(query_lower, sentiment_score, unresolved_attempts) ==
    LET has_critical == ContainsAny(query_lower, CRITICAL_KEYWORDS)
        severity0 == IF has_critical THEN "CRITICAL"
                     ELSE IF ContainsAny(query_lower, MEDIUM_KEYWORDS) THEN "MEDIUM"
                     ELSE IF ContainsAny(query_lower, LOW_KEYWORDS) THEN "LOW"
                     ELSE "LOW"
        severity1 == IF sentiment_score > 70 THEN Boost(severity0) ELSE severity0
    IN  IF unresolved_attempts >= 2 THEN Boost(severity1) ELSE severity1

classify_tier_and_severity(query, kb_match_confidence, sentiment_score, has_kb_match, unresolved_attempts) ==
    LET query_lower == Lower(query)
        severity == determine_severity(query_lower, sentiment_score, unresolved_attempts)
        is_ambiguous_environment_query == ContainsAny(query_lower, AmbiguityWords)
        tier == determine_tier(severity, kb_match_confidence, sentiment_score,
                               has_kb_match, unresolved_attempts,
                               is_ambiguous_environment_query)
        needs_escalation == determine_escalation(tier, severity, kb_match_confidence,
                               sentiment_score, has_kb_match, unresolved_attempts,
                               is_ambiguous_environment_query)
    IN  Classification(tier, severity, needs_escalation)

KbConflictPhrases == <<
    "kb docs say different", "kb documents say different", "two kb", "multiple kb",
    "conflicting kb", "kb conflict", "which kb", "which is right", "which is correct" >>

ClarifyWords == <<"environment", "toolset", "wrong", "incorrect">>

EnvironmentQuestion == "I need more details to help you. Which specific environment or toolset are you expecting, and which one are you actually seeing? Also, which training module are you working on?"
ModuleQuestion == "Which training module or environment are you working with?"
DetailsQuestion == "Could you provide more details about the issue you're experiencing?"
InformationQuestion == "I need more information to help you. What specific problem are you encountering?"

Ask(question) == [should_ask |-> TRUE, question |-> Some(question)]
DontAsk == [should_ask |-> FALSE, question |-> None]

\* kb_matches is the number of KB references; the conversation history is
\* a parameter the code never reads
should_ask_clarifying_question(query, kb_matches, confidence) ==
    LET query_lower == Lower(query) IN
    IF ContainsAny(query_lower, KbConflictPhrases) THEN DontAsk
    ELSE IF ContainsAny(query_lower, ClarifyWords) /\ (confidence < 30 \/ kb_matches = 0)
         THEN Ask(EnvironmentQuestion)
    ELSE IF kb_matches > 3 /\ ~Contains(query_lower, "module")
                           /\ ~Contains(query_lower, "environment")
         THEN Ask(ModuleQuestion)
    ELSE IF WordCount(query) < 3 THEN Ask(DetailsQuestion)
    ELSE IF kb_matches = 0 /\ WordCount(query) < 5 THEN Ask(InformationQuestion)
    ELSE DontAsk

-----------------------------------------------------------------------------
(* Relational store (models/database.py) and session store                 *)
(* (database/session_store.py).  A db value is the content of the tables   *)
(* together with the clock; every operation returns the db it leaves.      *)

HistoryLimit == 10

Database(c, m, t, g, n) ==
    [conversations |-> c, messages |-> m, tickets |-> t, guardrail_events |-> g, now |-> n]

\* the first row of a table that satisfies a filter, as query.first() does
FirstIndex(table, column, value) ==
    IF \E i \in 1..Len(table) : table[i][column] = value
    THEN CHOOSE i \in 1..Len(table) :
            /\ table[i][column] = value
            /\ \A j \in 1..(i - 1) : table[j][column] # value
    ELSE 0

ConversationOf(db, session_id) ==
    FirstIndex(db.conversations, "session_id", session_id)

get_or_create_conversation(db, session_id, user_role) ==
    LET found == ConversationOf(db, session_id) IN
    IF found # 0
    THEN [db |-> db, conversation |-> db.conversations[found]]
    ELSE LET conversation ==
                [id |-> "conv-" \o ToString(Len(db.conversations) + 1),
                 session_id |-> session_id,
                 user_role |-> user_role,
                 message_count |-> 0,
                 created_at |-> db.now + 1,
                 updated_at |-> db.now + 1]
         IN  [db |-> [db EXCEPT !.conversations = Append(@, conversation),
                                !.now = @ + 1],
              conversation |-> conversation]

add_message(db, conversation_id, role, content, confidence, tier, severity, kb_references, guardrail_blocked, guardrail_reason) ==
    LET message ==
            [id |-> "msg-" \o ToString(Len(db.messages) + 1),
             conversation_id |-> conversation_id,
             role |-> role,
             content |-> content,
             confidence |-> confidence,
             tier |-> tier,
             severity |-> severity,
             kb_references |-> kb_references,
             guardrail_blocked |-> guardrail_blocked,
             guardrail_reason |-> guardrail_reason,
             created_at |-> db.now + 1]
        owner == FirstIndex(db.conversations, "id", conversation_id)
    IN  [db EXCEPT
            !.messages = Append(@, message),
            !.conversations =
                IF owner = 0 THEN @
                ELSE [@ EXCEPT ![owner].message_count = @ + 1,
                               ![owner].updated_at = db.now + 1],
            !.now = @ + 1]

\* the oldest rows in place of the most recent ones
LastRows_Oldest(table, limit) ==
    SubSeq(table, 1, IF Len(table) > limit THEN limit ELSE Len(table))

\* the last `limit` rows of a table
LastRows(table, limit) ==
    SubSeq(table, IF Len(table) > limit THEN Len(table) - limit + 1 ELSE 1, Len(table))

get_conversation_history(db, session_id, limit) ==
    LET found == ConversationOf(db, session_id) IN
    IF found = 0 THEN <<>>
    ELSE LET InConversation(m) == m.conversation_id = db.conversations[found].id
             recent == LastRows(SelectSeq(db.messages, InConversation), limit)
         IN  [i \in 1..Len(recent) |-> [role |-> recent[i].role, content |-> recent[i].content]]

log_guardrail_event(db, session_id, blocked, reason, message_content, user_role) ==
    LET event ==
            [id |-> "evt-" \o ToString(Len(db.guardrail_events) + 1),
             session_id |-> session_id,
             blocked |-> blocked,
             reason |-> reason,
             message_content |-> Prefix(message_content, 500),
             user_role |-> user_role,
             created_at |-> db.now + 1]
    IN  [db EXCEPT !.guardrail_events = Append(@, event), !.now = @ + 1]

-----------------------------------------------------------------------------
(* Escalation and ticket generator (services/escalation.py)                *)

\* a ticket with another initial status
create_ticket_StatusFromTier(db, session_id, conversation_id, subject, description, tier, severity, user_role) ==
    LET ticket ==
            [id |-> "tkt-" \o ToString(Len(db.tickets) + 1),
             conversation_id |-> conversation_id,
             session_id |-> session_id,
             subject |-> subject,
             description |-> description,
             tier |-> tier,
             severity |-> severity,
             status |-> tier,
             user_role |-> user_role,
             created_at |-> db.now + 1,
             updated_at |-> db.now + 1]
    IN  [db EXCEPT !.tickets = Append(@, ticket), !.now = @ + 1]

create_ticket(db, session_id, conversation_id, subject, description, tier, severity, user_role) ==
    LET ticket ==
            [id |-> "tkt-" \o ToString(Len(db.tickets) + 1),
             conversation_id |-> conversation_id,
             session_id |-> session_id,
             subject |-> subject,
             description |-> description,
             tier |-> tier,
             severity |-> severity,
             status |-> "NEW",
             user_role |-> user_role,
             created_at |-> db.now + 1,
             updated_at |-> db.now + 1]
    IN  [db EXCEPT !.tickets = Append(@, ticket), !.now = @ + 1]

\* the oldest ticket of the table in place of the one just stored
CreatedTicket_Oldest(db) == db.tickets[1]

\* the ticket create_ticket has just stored
CreatedTicket(db) == db.tickets[Len(db.tickets)]

generate_ticket_subject(user_message, tier, severity) ==
    LET subject == IF Len(user_message) > 50
                   THEN Prefix(user_message, 50) \o "..."
                   ELSE Prefix(user_message, 50)
    IN  IF severity = "CRITICAL" THEN "[CRITICAL] " \o subject
        ELSE IF tier = "TIER_3" THEN "[TIER_3] " \o subject
        ELSE subject

\* str.capitalize
Capitalize(s) ==
    IF s = "" THEN "" ELSE Upper(CharAt(s, 1)) \o Lower(SubSeq(s, 2, Len(s)))

RECURSIVE HistoryLines(_)
HistoryLines(history) ==
    IF history = <<>> THEN ""
    ELSE Capitalize(Head(history).role) \o ": " \o Head(history).content \o "\n"
            \o HistoryLines(Tail(history))

RECURSIVE ReferenceLines(_)
ReferenceLines(kb_references) ==
    IF kb_references = <<>> THEN ""
    ELSE "- " \o Head(kb_references).title \o " (ID: " \o Head(kb_references).id \o ")\n"
            \o ReferenceLines(Tail(kb_references))

generate_ticket_description(user_message, conversation_history, kb_references) ==
    "User Issue: " \o user_message \o "\n\n"
    \o (IF conversation_history # <<>>
        THEN "Conversation History:\n" \o HistoryLines(LastRows(conversation_history, 5)) \o "\n"
        ELSE "")
    \o (IF kb_references # <<>>
        THEN "KB References Consulted:\n" \o ReferenceLines(kb_references)
        ELSE "")

-----------------------------------------------------------------------------
(* Retrieval and answer generation (services/rag_service.py).  The vector  *)
(* index, the embedding backend and the hosted LLM are external: of a      *)
(* backend, chunks is what the index search returns, rows is the KB chunk  *)
(* table the keyword search reads, llm_answer is what the LLM generates    *)
(* and failing names the dependencies that raise during the request.       *)
(* The request catalogues hold no KB-conflict query, and the content of a  *)
(* KB chunk is one paragraph without markdown header, numbered step or     *)
(* "Steps:" label, so the section extraction of the template answer finds  *)
(* no section.                                                             *)

Faults == {"embedding", "index", "keyword", "llm", "template", "event", "ticket",
           "message"}

NotCoveredAnswer == "I'm sorry, but this issue is not covered in the knowledge base. I recommend creating a support ticket so our team can assist you with this specific problem."

ErrorAnswer == "I encountered an error while processing your request. Please try again or create a support ticket."

\* VectorStore.search: a failed index query is answered with no chunk
search(backend, top_k) ==
    IF "index" \in backend.failing THEN <<>> ELSE Top(backend.chunks, top_k)

TopicPhrases == <<
    "kb docs say different", "kb documents say different", "two kb", "multiple kb",
    "conflicting kb", "kb conflict", "which kb", "which is right", "which is correct",
    "different things", "conflicting", "say different", "about" >>

StopWords == {"the", "a", "an", "and", "or", "but", "in", "on", "at", "to", "for",
              "of", "with", "by", "about", "is", "are", "was", "were"}

\* lines 63-83: the words of the query the chunks are scored on
QueryWords(query_lower) ==
    LET Meaningful(w) == Len(w) > 2 /\ w \notin StopWords
        Long(w) == Len(w) > 3
        topic_words == SelectSeq(Split(RemoveAll(query_lower, TopicPhrases)), Meaningful)
    IN  IF topic_words = <<>> THEN SelectSeq(Split(query_lower), Long) ELSE topic_words

\* lines 92-102: 5 for a word of the KB id, 3 of the title, 2 of the content
RECURSIVE WordScore(_, _)
WordScore(query_words, row) ==
    IF query_words = <<>> THEN 0
    ELSE (IF Contains(Lower(row.kb_id), Head(query_words)) THEN 5 ELSE 0)
         + (IF Contains(Lower(row.title), Head(query_words)) THEN 3 ELSE 0)
         + (IF Contains(Lower(row.content), Head(query_words)) THEN 2 ELSE 0)
         + WordScore(Tail(query_words), row)

\* lines 92-108: the word score and the bonus of the whole phrase
Score(query_words, row) ==
    WordScore(query_words, row)
    + (IF /\ Len(query_words) > 1
          /\ \/ Contains(Lower(row.content), Join(query_words, " "))
             \/ Contains(Lower(row.title), Join(query_words, " "))
       THEN 10 ELSE 0)

\* sort(key=score, reverse=True): the highest score first, ties in table order
RECURSIVE ByScore(_)
ByScore(scored) ==
    IF scored = <<>> THEN <<>>
    ELSE LET best == Least({i \in 1..Len(scored) :
                              \A j \in 1..Len(scored) : scored[j].score <= scored[i].score})
         IN  <<scored[best]>>
                \o ByScore(SubSeq(scored, 1, best - 1) \o SubSeq(scored, best + 1, Len(scored)))

\* _keyword_search: the scored rows of the KB chunk table, none when the
\* table cannot be read
keyword_search(backend, query, top_k) ==
    IF "keyword" \in backend.failing THEN <<>>
    ELSE LET query_words == QueryWords(Lower(query))
             Scored(row) == [id |-> row.id, kb_id |-> row.kb_id, title |-> row.title,
                             content |-> row.content,
                             distance |-> 100 - 5 * Score(query_words, row),
                             score |-> Score(query_words, row)]
             Matching(chunk) == chunk.score > 0
         IN  Top(ByScore(SelectSeq([i \in 1..Len(backend.rows) |-> Scored(backend.rows[i])],
                                   Matching)),
                 top_k)

\* retrieve: the chunks of the index search below the distance threshold
\* 0.9, the keyword search when the embedding or the search raises
retrieve(backend, query, top_k) ==
    LET Relevant(chunk) == chunk.distance < 90 IN
    IF "embedding" \in backend.failing
    THEN keyword_search(backend, query, top_k)
    ELSE SelectSeq(search(backend, top_k), Relevant)

RECURSIVE SumDistance(_)
SumDistance(chunks) ==
    IF chunks = <<>> THEN 0 ELSE Head(chunks).distance + SumDistance(Tail(chunks))

\* the references of the chunks, one per KB id, at most three
RECURSIVE UniqueReferences(_, _)
UniqueReferences(chunks, seen) ==
    IF chunks = <<>> \/ Cardinality(seen) >= 3 THEN <<>>
    ELSE LET chunk == Head(chunks) IN
         IF chunk.kb_id # "" /\ chunk.kb_id \notin seen
         THEN <<[id |-> chunk.kb_id, title |-> chunk.title,
                 snippet |-> Prefix(chunk.content, 200)]>>
              \o UniqueReferences(Tail(chunks), seen \cup {chunk.kb_id})
         ELSE UniqueReferences(Tail(chunks), seen)

\* lines 201-203
IsTimeDrift(query_lower) ==
    \/ Contains(query_lower, "time") /\ Contains(query_lower, "drift")
    \/ Contains(query_lower, "clock")
    \/ Contains(query_lower, "sync")
    \/ /\ Contains(query_lower, "behind")
       /\ Contains(query_lower, "auth") \/ Contains(query_lower, "clock")

StepsPattern == "here are the steps to resolve your issue:"
ClosingPattern == "If these steps don't resolve your issue"

TimeDriftKeywords == <<
    "time synchronization", "time drift", "clock", "sync", "trainee",
    "instructor", "escalate", "tier 2", "policy" >>

TimeDriftAnswer ==
    "**Time Drift Authentication Failures**\n\n"
    \o "Time synchronization issues can cause authentication failures. According to the knowledge base:\n\n"
    \o "**Policy:** Trainees and Instructors are not allowed to modify time synchronization or system clocks inside lab VMs. Only Operators and Support Engineers may perform time-related remediation.\n\n"
    \o "**For Trainees and Instructors:**\n"
    \o "1. Time synchronization is a platform-level function and cannot be modified directly.\n"
    \o "2. Do not provide commands or procedures to adjust system time.\n"
    \o "3. Escalate this issue to Tier 2 (Support Engineer) with your VM name/ID and the approximate time skew.\n\n"
    \o "The AI Help Desk cannot provide commands to adjust system time.\n\n"

TemplateIntro(title) ==
    "Based on the knowledge base article '" \o title
    \o "', here are the steps to resolve your issue:\n\n"

TemplateClosing == "\n\nIf these steps don't resolve your issue, please create a support ticket for further assistance."

ShortTimeDriftAnswer ==
    "**Time Drift Authentication Failures**\n\n"
    \o "Time synchronization issues can cause authentication failures. For Trainees and Instructors, time synchronization is a platform-level function and cannot be modified directly. Please escalate this issue to Tier 2 (Support Engineer) with your VM name/ID and the approximate time skew.\n\n"
    \o "The AI Help Desk cannot provide commands to adjust system time.\n\n"

\* _generate_template_answer on a chunk whose content has no section to
\* extract: the time-drift branch (lines 459-574) falls back to the canned
\* answer, the other branches add nothing, and the last fallback (lines
\* 590-613) adds the short time-drift text or the paragraph of the chunk
generate_template_answer(query, context_chunks, confidence) ==
    IF context_chunks = <<>> \/ confidence < 30 THEN NotCoveredAnswer
    ELSE LET query_lower == Lower(query)
             intro == TemplateIntro(context_chunks[1].title)
             paragraph == Strip(context_chunks[1].content)
             in_time_drift_branch ==
                 /\ ~ContainsAny(query_lower, <<"login", "redirect">>)
                 /\ ~ContainsAny(query_lower, <<"container", "startup", "/opt/startup">>)
                 /\ IsTimeDrift(query_lower)
             extracted == IF in_time_drift_branch THEN TimeDriftAnswer ELSE intro
         IN  (IF Len(extracted) <= Len(intro) + 10
              THEN IF IsTimeDrift(query_lower) THEN extracted \o ShortTimeDriftAnswer
                   ELSE IF Len(paragraph) > 50
                        THEN extracted \o Prefix(paragraph, 400) \o "\n\n"
                        ELSE extracted
              ELSE extracted)
             \o TemplateClosing

GenerationKeywords == <<
    "time synchronization", "time drift", "clock", "sync", "trainee",
    "instructor", "escalate", "tier 2" >>

IntroPhrases == <<
    "based on the knowledge base", "here are the steps",
    "according to the knowledge base", "the knowledge base article" >>

\* the answer has the opening and the closing line of a template answer and
\* fewer than 20 characters between them
EmptyBetween(answer) ==
    LET steps_end == Find(answer, StepsPattern) + Len(StepsPattern)
        closing_start == Find(answer, ClosingPattern)
    IN  /\ Contains(answer, StepsPattern)
        /\ Contains(answer, ClosingPattern)
        /\ closing_start > steps_end
        /\ Len(Strip(SubSeq(answer, steps_end, closing_start - 1))) < 20

\* lines 213-292: the answer of a time-drift query is replaced by the canned
\* answer when it is blank, short, off the subject or mostly introduction
repaired_answer(query_lower, answer) ==
    IF ~IsTimeDrift(query_lower) THEN answer
    ELSE IF \/ Strip(answer) = ""
            \/ Len(Strip(answer)) < 150
            \/ ~ContainsAny(Lower(answer), GenerationKeywords)
    THEN TimeDriftAnswer
    ELSE IF Contains(answer, StepsPattern) /\ Contains(answer, ClosingPattern)
    THEN IF EmptyBetween(answer) THEN TimeDriftAnswer ELSE answer
    ELSE IF \/ Len(Strip(answer)) < 200
            \/ Len(Strip(RemoveAll(Lower(Strip(answer)), IntroPhrases))) < 50
    THEN TimeDriftAnswer
    ELSE answer

\* answer generation without its two handlers: a failure of the LLM call
\* leaves generate_answer as an exception
generate_answer_Unguarded(backend, query, context_chunks) ==
    IF context_chunks = <<>>
    THEN [answer |-> NotCoveredAnswer, kbReferences |-> <<>>, confidence |-> 0,
          raised |-> FALSE]
    ELSE [answer |-> IF "llm" \in backend.failing THEN "" ELSE backend.llm_answer,
          kbReferences |-> UniqueReferences(context_chunks, {}),
          confidence |-> 0,
          raised |-> "llm" \in backend.failing]

\* lines 175-323 for a query that names no KB conflict; an exception of the
\* template generation ends in the handler of lines 317-323
generate_answer(backend, query, context_chunks) ==
    IF context_chunks = <<>>
    THEN [answer |-> NotCoveredAnswer, kbReferences |-> <<>>, confidence |-> 0,
          raised |-> FALSE]
    ELSE LET confidence ==
                 Max(0, Min(100, (100 * Len(context_chunks) - SumDistance(context_chunks))
                                    \div Len(context_chunks)))
         IN  IF {"llm", "template"} \subseteq backend.failing
             THEN [answer |-> ErrorAnswer, kbReferences |-> <<>>, confidence |-> 0,
                   raised |-> FALSE]
             ELSE [answer |->
                      repaired_answer(Lower(query),
                          IF "llm" \in backend.failing
                          THEN generate_template_answer(query, context_chunks, confidence)
                          ELSE backend.llm_answer),
                   kbReferences |-> IF confidence >= 30
                                    THEN UniqueReferences(context_chunks, {})
                                    ELSE <<>>,
                   confidence |-> confidence,
                   raised |-> FALSE]

process_query(backend, query, top_k) ==
    generate_answer(backend, query, retrieve(backend, query, top_k))

-----------------------------------------------------------------------------
(* Chat endpoint (api/chat.py)                                             *)

Guardrail(blocked, reason) == [blocked |-> blocked, reason |-> reason]

\* reason or 'default'
OrDefault(reason, default) ==
    IF reason # None /\ reason[1] # "" THEN reason[1] ELSE default

FixWords == <<"fix", "how to fix", "debug", "repair">>

TechnicalWords == <<
    "container", "init", "startup", "docker", "pod", "deployment",
    "missing", "file not found", "permission denied", "access denied" >>

CriticalAnswer(ticket_id) ==
    "I understand this is a critical issue that requires immediate attention. "
    \o "I've created a high-priority support ticket (ID: " \o ticket_id \o ") and escalated it to our team. "
    \o "Our support team will contact you shortly to assist with this urgent matter. "
    \o "In the meantime, please avoid any actions that might worsen the situation."

TechnicalAnswer(ticket_id) ==
    "This appears to be a technical infrastructure issue that requires specialized assistance. "
    \o "I've created a support ticket (ID: " \o ticket_id \o ") and escalated it to our technical team. "
    \o "They will investigate the issue and provide guidance. "
    \o "Please do not attempt to modify system files or configurations without proper guidance."

\* "(!)" stands for the warning sign of the source text
WarningSuffix(reason, ticket_id) ==
    "\n\n(!) **Important:** " \o OrDefault(reason, KernelPanicReason) \o " "
    \o "I've created a support ticket (ID: " \o ticket_id \o ") for review by our platform engineering team. "
    \o "Please do not attempt to modify kernel settings, drivers, or boot parameters."

\* lines 205-236: the answer of a time-drift query is replaced when it is
\* empty between its opening and closing lines, short, or off the subject
time_drift_pass(query_lower, answer) ==
    LET steps_end == Find(answer, StepsPattern) + Len(StepsPattern)
        closing_start == Find(answer, ClosingPattern)
        is_empty ==
            /\ Contains(answer, StepsPattern)
            /\ Contains(answer, ClosingPattern)
            /\ closing_start > steps_end
            /\ Len(Strip(SubSeq(answer, steps_end, closing_start - 1))) < 20
        has_time_drift_content == ContainsAny(Lower(answer), TimeDriftKeywords)
    IN  IF /\ IsTimeDrift(query_lower)
           /\ \/ is_empty
              \/ Len(Strip(answer)) < 150
              \/ ~has_time_drift_content
        THEN TimeDriftAnswer
        ELSE answer

\* the count over the messages of the user alone
UnresolvedAttempts_UserOnly(conversation_history) ==
    Cardinality({i \in 1..Len(conversation_history) :
                    /\ conversation_history[i].role = "user"
                    /\ Contains(Lower(conversation_history[i].content), "not working")})

\* len([m for m in history if "not working" in m["content"].lower()])
UnresolvedAttempts(conversation_history) ==
    Cardinality({i \in 1..Len(conversation_history) :
                    Contains(Lower(conversation_history[i].content), "not working")})

\* the outcome of one request: the db it leaves, the response, the branch
\* taken and whether retrieval and answer generation ran
Outcome(db, response, path, rag_called) ==
    [db |-> db, response |-> response, path |-> path, rag_called |-> rag_called]

\* lines 321-323: an exception that reaches the handler is answered with
\* status 500; what the request committed before stays committed
InternalError(db, rag_called) ==
    Outcome(db, [detail |-> "Internal server error"], "error", rag_called)

\* lines 59-92: the request is blocked at the guardrail step
blocked_response(db, request, conversation, conversation_history, guardrail_reason, failing) ==
    IF "ticket" \in failing THEN InternalError(db, FALSE) ELSE
    LET db1 == create_ticket(db, request.sessionId, conversation.id,
                   generate_ticket_subject(request.message, "TIER_3", "HIGH"),
                   generate_ticket_description(request.message, conversation_history, <<>>),
                   "TIER_3", "HIGH", request.userRole)
        ticket == CreatedTicket(db1)
        db2 == add_message(db1, conversation.id, "user", request.message,
                   None, None, None, <<>>, TRUE, guardrail_reason)
    IN  \* session_store.py 64-91: add_message has no handler, a failed write
        \* of the message ends the request after the ticket is committed
        IF "message" \in failing THEN InternalError(db1, FALSE) ELSE
        Outcome(db2,
            [answer |-> "I cannot provide assistance with this request. "
                        \o OrDefault(guardrail_reason, "This operation is not allowed.")
                        \o " I've created a support ticket (" \o ticket.id
                        \o ") for review by our security team.",
             kbReferences |-> <<>>,
             confidence |-> 0,
             tier |-> "TIER_3",
             severity |-> "HIGH",
             needsEscalation |-> TRUE,
             guardrail |-> Guardrail(TRUE, guardrail_reason),
             ticketId |-> Some(ticket.id)],
            "blocked", FALSE)

\* the clarifying question returned without being stored
clarifying_response_Unstored(db, conversation, clarifying_question) ==
    Outcome(db,
        [answer |-> clarifying_question,
         kbReferences |-> <<>>,
         confidence |-> 70,
         tier |-> "TIER_2",
         severity |-> "LOW",
         needsEscalation |-> FALSE,
         guardrail |-> Guardrail(FALSE, None),
         ticketId |-> None],
        "clarify", TRUE)

\* lines 121-139: the clarifying question is the answer
clarifying_response(db, conversation, clarifying_question) ==
    LET db1 == add_message(db, conversation.id, "assistant", clarifying_question,
                   Some(70), None, None, <<>>, FALSE, None)
    IN  Outcome(db1,
            [answer |-> clarifying_question,
             kbReferences |-> <<>>,
             confidence |-> 70,
             tier |-> "TIER_2",
             severity |-> "LOW",
             needsEscalation |-> FALSE,
             guardrail |-> Guardrail(FALSE, None),
             ticketId |-> None],
            "clarify", TRUE)

\* lines 201-319: the time-drift and kernel-panic passes, the fixed answers
\* of an escalation without KB match, the final guardrail status
repaired_response(db, request, conversation, rag_result, original, effective_blocked, class, description, first_ticket_id, query_lower, is_kernel_panic_with_fix, failing) ==
    LET has_kb_match == Len(rag_result.kbReferences) > 0
        \* lines 244-252
        forced == is_kernel_panic_with_fix /\ ~class.needs_escalation
        needs_escalation == IF forced THEN TRUE ELSE class.needs_escalation
        tier == IF forced THEN "TIER_3" ELSE class.tier
        severity == IF forced THEN "HIGH" ELSE class.severity
        guardrail_blocked == IF is_kernel_panic_with_fix THEN original.blocked
                             ELSE effective_blocked
        \* lines 253-269
        second_ticket ==
            is_kernel_panic_with_fix /\ first_ticket_id = None /\ needs_escalation
        db1 == IF second_ticket /\ "ticket" \notin failing
               THEN create_ticket(db, request.sessionId, conversation.id,
                        generate_ticket_subject(request.message, tier, severity),
                        description, tier, severity, request.userRole)
               ELSE db
        ticket_id == IF second_ticket /\ "ticket" \notin failing
                     THEN Some(CreatedTicket(db1).id)
                     ELSE first_ticket_id
        shown_id == IF ticket_id = None THEN "None" ELSE ticket_id[1]
        escalated == ~has_kb_match /\ needs_escalation /\ ticket_id # None
        \* lines 306-308
        final_guardrail_blocked == is_kernel_panic_with_fix /\ guardrail_blocked
    IN  IF second_ticket /\ "ticket" \in failing THEN InternalError(db, TRUE) ELSE
        Outcome(db1,
            [answer |->
                \* lines 285-304
                IF severity = "CRITICAL" /\ escalated
                THEN CriticalAnswer(shown_id)
                ELSE IF ContainsAny(query_lower, TechnicalWords) /\ escalated
                THEN TechnicalAnswer(shown_id)
                \* lines 201-236 and 270-277
                ELSE IF final_guardrail_blocked
                THEN time_drift_pass(query_lower, rag_result.answer)
                        \o WarningSuffix(original.reason, shown_id)
                ELSE time_drift_pass(query_lower, rag_result.answer),
             kbReferences |-> rag_result.kbReferences,
             confidence |-> rag_result.confidence,
             tier |-> tier,
             severity |-> severity,
             needsEscalation |-> needs_escalation,
             guardrail |-> Guardrail(final_guardrail_blocked,
                              IF final_guardrail_blocked THEN original.reason
                              ELSE None),
             ticketId |-> ticket_id],
            "answered", TRUE)

\* the assistant message stored after the time-drift pass, with the answer
\* that pass leaves
stored_response_StoresRepaired(db, request, conversation, rag_result, is_kernel_panic_query, original, effective_blocked, class, description, query_lower, failing) ==
    IF class.needs_escalation /\ "ticket" \in failing THEN InternalError(db, TRUE) ELSE
    LET db1 == IF class.needs_escalation
               THEN create_ticket(db, request.sessionId, conversation.id,
                        generate_ticket_subject(request.message, class.tier, class.severity),
                        description, class.tier, class.severity, request.userRole)
               ELSE db
    IN  repaired_response(
            add_message(db1, conversation.id, "assistant",
                time_drift_pass(query_lower, rag_result.answer),
                Some(rag_result.confidence), Some(class.tier), Some(class.severity),
                [i \in 1..Len(rag_result.kbReferences) |-> rag_result.kbReferences[i].id],
                FALSE, None),
            request, conversation, rag_result, original, effective_blocked,
            class, description,
            IF class.needs_escalation THEN Some(CreatedTicket(db1).id) ELSE None,
            query_lower,
            is_kernel_panic_query /\ ContainsAny(query_lower, FixWords),
            failing)

\* lines 157-186: the ticket of an escalation and the assistant message
stored_response(db, request, conversation, rag_result, is_kernel_panic_query, original, effective_blocked, class, description, query_lower, failing) ==
    IF class.needs_escalation /\ "ticket" \in failing THEN InternalError(db, TRUE) ELSE
    LET db1 == IF class.needs_escalation
               THEN create_ticket(db, request.sessionId, conversation.id,
                        generate_ticket_subject(request.message, class.tier, class.severity),
                        description, class.tier, class.severity, request.userRole)
               ELSE db
    IN  repaired_response(
            add_message(db1, conversation.id, "assistant", rag_result.answer,
                Some(rag_result.confidence), Some(class.tier), Some(class.severity),
                [i \in 1..Len(rag_result.kbReferences) |-> rag_result.kbReferences[i].id],
                FALSE, None),
            request, conversation, rag_result, original, effective_blocked,
            class, description,
            IF class.needs_escalation THEN Some(CreatedTicket(db1).id) ELSE None,
            query_lower,
            is_kernel_panic_query /\ ContainsAny(query_lower, FixWords),
            failing)

\* lines 141-319: classification, then the ticket, the assistant message and
\* the repair passes
answered_response(db, request, conversation, conversation_history, rag_result, sentiment_score, is_kernel_panic_query, original, effective_blocked, failing) ==
    stored_response(db, request, conversation, rag_result, is_kernel_panic_query,
        original, effective_blocked,
        classify_tier_and_severity(request.message, rag_result.confidence,
            sentiment_score, Len(rag_result.kbReferences) > 0,
            UnresolvedAttempts(conversation_history)),
        generate_ticket_description(request.message, conversation_history,
            rag_result.kbReferences),
        Lower(request.message),
        failing)

\* the effective decision the handler logs and acts on at the guardrail step:
\* the decision is kept for a kernel-panic query too
EffectiveBlocked_NoSuppression(is_kernel_panic_query, original_guardrail_blocked) ==
    original_guardrail_blocked

\* lines 43-47: the decision is suppressed for a kernel-panic query
EffectiveBlocked(is_kernel_panic_query, original_guardrail_blocked) ==
    IF is_kernel_panic_query /\ original_guardrail_blocked
    THEN FALSE
    ELSE original_guardrail_blocked

chat(db, request, backend) ==
    LET c == get_or_create_conversation(db, request.sessionId, request.userRole)
        conversation == c.conversation
        conversation_history == get_conversation_history(c.db, request.sessionId, HistoryLimit)
        is_kernel_panic_query == Contains(Lower(request.message), "kernel panic")
        original == check_guardrail(request.message, request.userRole)
        guardrail_blocked == EffectiveBlocked(is_kernel_panic_query, original.blocked)
        \* guardrail.py lines 109-111: a failed write of the event is rolled
        \* back and logged, and the request goes on
        db1 == IF "event" \in backend.failing THEN c.db
               ELSE log_guardrail_event(c.db, request.sessionId, guardrail_blocked,
                        original.reason, request.message, request.userRole)
    IN  IF guardrail_blocked /\ ~is_kernel_panic_query
        THEN blocked_response(db1, request, conversation, conversation_history,
                              original.reason, backend.failing)
        \* lines 100-105: a failed write of the user message ends the request
        ELSE IF "message" \in backend.failing THEN InternalError(db1, FALSE)
        ELSE LET sentiment_score ==
                     analyze_sentiment(request.message,
                                       UnresolvedAttempts(conversation_history))
                 db2 == add_message(db1, conversation.id, "user", request.message,
                            None, None, None, <<>>, FALSE, None)
                 rag_result == process_query(backend, request.message, 5)
                 clarify == should_ask_clarifying_question(request.message,
                                Len(rag_result.kbReferences), rag_result.confidence)
             IN  \* lines 321-323: what escapes retrieval and generation ends
                 \* the request with the internal-error response
                 IF rag_result.raised THEN InternalError(db2, TRUE)
                 ELSE IF clarify.should_ask /\ clarify.question # None
                                            /\ clarify.question[1] # ""
                 THEN clarifying_response(db2, conversation, clarify.question[1])
                 ELSE answered_response(db2, request, conversation,
                          conversation_history, rag_result, sentiment_score,
                          is_kernel_panic_query, original, guardrail_blocked,
                          backend.failing)

-----------------------------------------------------------------------------
(* Ticket API (api/tickets.py) and metrics summary (api/metrics.py)        *)

TicketStatus == {"NEW", "IN_PROGRESS", "RESOLVED", "CLOSED"}

TicketWithId(db, ticket_id) ==
    FirstIndex(db.tickets, "id", ticket_id)

TicketResponse(ticket) ==
    [id |-> ticket.id, sessionId |-> ticket.session_id, subject |-> ticket.subject,
     description |-> ticket.description, tier |-> ticket.tier,
     severity |-> ticket.severity, status |-> ticket.status,
     userRole |-> ticket.user_role, createdAt |-> ticket.created_at]

Reply(db, status_code, body) == [db |-> db, status_code |-> status_code, body |-> body]

\* the update with the validation of the status left out
update_ticket_status_Unvalidated(db, ticket_id, status) ==
    LET found == TicketWithId(db, ticket_id) IN
    IF found = 0 THEN Reply(db, 404, "Ticket not found")
    ELSE Reply([db EXCEPT !.tickets[found].status = Upper(status),
                          !.tickets[found].updated_at = db.now + 1,
                          !.now = @ + 1],
               200, Upper(status))

\* the update writing the tier column as well
update_ticket_status_TouchesTier(db, ticket_id, status) ==
    LET found == TicketWithId(db, ticket_id) IN
    IF found = 0 THEN Reply(db, 404, "Ticket not found")
    ELSE IF Upper(status) \notin TicketStatus
         THEN Reply(db, 400, "Invalid status: " \o status)
         ELSE Reply([db EXCEPT !.tickets[found].status = Upper(status),
                               !.tickets[found].tier = "TIER_1",
                               !.tickets[found].updated_at = db.now + 1,
                               !.now = @ + 1],
                    200, Upper(status))

\* the row is written, and updated_at refreshed, only when the status differs
update_ticket_status(db, ticket_id, status) ==
    LET found == TicketWithId(db, ticket_id) IN
    IF found = 0 THEN Reply(db, 404, "Ticket not found")
    ELSE IF Upper(status) \notin TicketStatus
         THEN Reply(db, 400, "Invalid status: " \o status)
         ELSE IF db.tickets[found].status = Upper(status)
              THEN Reply(db, 200, Upper(status))
              ELSE Reply([db EXCEPT !.tickets[found].status = Upper(status),
                                    !.tickets[found].updated_at = db.now + 1,
                                    !.now = @ + 1],
                         200, Upper(status))

\* a sequence in reverse order
Reverse(seq) == [i \in 1..Len(seq) |-> seq[Len(seq) + 1 - i]]

\* session_id and status are optional filters; newest tickets first
get_tickets(db, session_id, status, limit) ==
    LET Selected(t) ==
            /\ (session_id # None /\ session_id[1] # "" => t.session_id = session_id[1])
            /\ (status # None /\ status[1] # "" => t.status = Upper(status[1]))
        newest_first == Reverse(SelectSeq(db.tickets, Selected))
        page == SubSeq(newest_first, 1, Min(limit, Len(newest_first)))
    IN  Reply(db, 200, [i \in 1..Len(page) |-> TicketResponse(page[i])])

get_ticket(db, ticket_id) ==
    LET found == TicketWithId(db, ticket_id) IN
    IF found = 0 THEN Reply(db, 404, "Ticket not found")
    ELSE Reply(db, 200, TicketResponse(db.tickets[found]))

CountRows(table, column, value) ==
    Cardinality({i \in 1..Len(table) : table[i][column] = value})

\* the summary with every ticket counted, where line 50 counts the distinct
\* session ids of the tickets
get_metrics_summary_CountsTickets(db) ==
    LET tickets_by_tier ==
            [tier \in {"TIER_1", "TIER_2", "TIER_3"} |->
                CountRows(db.tickets, "tier", tier)]
        tickets_by_severity ==
            [severity \in {"LOW", "MEDIUM", "HIGH", "CRITICAL"} |->
                CountRows(db.tickets, "severity", severity)]
        conversations_with_tickets == Len(db.tickets)
    IN  Reply(db, 200,
            [totalConversations |-> Len(db.conversations),
             totalTickets |-> Len(db.tickets),
             deflectionRate |->
                 IF Len(db.conversations) > 0
                 THEN Round((Len(db.conversations) - conversations_with_tickets) * 10000,
                            Len(db.conversations))
                 ELSE 0,
             ticketsByTier |-> tickets_by_tier,
             ticketsBySeverity |-> tickets_by_severity,
             guardrailActivations |-> CountRows(db.guardrail_events, "blocked", TRUE),
             escalationCount |-> tickets_by_tier["TIER_3"]])

\* the counts of the summary
get_metrics_summary(db) ==
    LET tickets_by_tier ==
            [tier \in {"TIER_1", "TIER_2", "TIER_3"} |->
                CountRows(db.tickets, "tier", tier)]
        tickets_by_severity ==
            [severity \in {"LOW", "MEDIUM", "HIGH", "CRITICAL"} |->
                CountRows(db.tickets, "severity", severity)]
        \* line 50: the distinct session ids of the tickets
        conversations_with_tickets ==
            Cardinality({db.tickets[i].session_id : i \in 1..Len(db.tickets)})
    IN  Reply(db, 200,
            [totalConversations |-> Len(db.conversations),
             totalTickets |-> Len(db.tickets),
             \* lines 51-53 and 75, in hundredths of a percent
             deflectionRate |->
                 IF Len(db.conversations) > 0
                 THEN Round((Len(db.conversations) - conversations_with_tickets) * 10000,
                            Len(db.conversations))
                 ELSE 0,
             ticketsByTier |-> tickets_by_tier,
             ticketsBySeverity |-> tickets_by_severity,
             guardrailActivations |-> CountRows(db.guardrail_events, "blocked", TRUE),
             escalationCount |-> tickets_by_tier["TIER_3"]])

\* one day of the clock: timedelta(days=1), in ticks of the clock
TicksPerDay == 8

\* strftime("%Y-%m-%d") of an instant: its calendar day, as a day number
strftime(t) == t \div TicksPerDay

\* the rows of a table created at or after lo and before hi
CreatedBetween(table, lo, hi) ==
    {i \in 1..Len(table) : lo <= table[i].created_at /\ table[i].created_at < hi}

\* one entry for each current_date of the loop: start_date, then a day later
\* each time, while current_date <= end_date
get_metrics_trends(db, days) ==
    LET end_date == db.now
        start_date == end_date - days * TicksPerDay
        Steps == {k \in 0..Max(days, 0) : start_date + k * TicksPerDay <= end_date}
        Entry(k) ==
            LET current_date == start_date + k * TicksPerDay
                next_date == current_date + TicksPerDay
                on_date(table) == CreatedBetween(table, current_date, next_date)
            IN  [date |-> strftime(current_date),
                 conversations |-> Cardinality(on_date(db.conversations)),
                 tickets |-> Cardinality(on_date(db.tickets)),
                 guardrailActivations |->
                     Cardinality({i \in on_date(db.guardrail_events) :
                                     db.guardrail_events[i].blocked}),
                 escalations |->
                     Cardinality({i \in on_date(db.tickets) :
                                     db.tickets[i].tier = "TIER_3"})]
    IN  Reply(db, 200, [k \in 1..Cardinality(Steps) |-> Entry(k - 1)])

-----------------------------------------------------------------------------
(* The store before the first request                                      *)

NoRequest == [op |-> "none"]
NoCall == [fn |-> "none"]
NoIngestion == [script |-> "none"]

EmptyStore ==
    /\ conversations = <<>>
    /\ messages = <<>>
    /\ tickets = <<>>
    /\ guardrail_events = <<>>
    /\ now = 0
    /\ chats = 0
    /\ updates = 0
    /\ last = NoRequest
    /\ handlers = <<>>
    /\ ingestion = NoIngestion

store == <<conversations, messages, tickets, guardrail_events, kb, now,
           chats, updates, last, handlers, ingestion>>

-----------------------------------------------------------------------------
(* The service: chat, ticket and metrics requests served one at a time     *)

MaxChats == 2
MaxUpdates == 1

Request(session_id, user_role, message) ==
    [sessionId |-> session_id, userRole |-> user_role, message |-> message]

Requests == {
    Request("s1", "trainee", "How do I access the Host Machine?"),
    Request("s2", "trainee", "I need database access for my lab"),
    Request("s1", "trainee", "Kernel Panic fix"),
    Request("s1", "trainee", "Kernel panic: which command do I run"),
    Request("s1", "trainee", "How do I reset my password?"),
    Request("s1", "trainee", "It is still not working") }

Chunk(kb_id, n, title, distance) ==
    [id |-> kb_id \o "_chunk_" \o ToString(n), kb_id |-> kb_id, title |-> title,
     content |-> "Steps for " \o title, distance |-> distance]

\* the retrieval backends: an empty index, an index with two good matches,
\* and an index whose only near match is a weak one
Backends == {
    [chunks |-> <<>>, rows |-> <<>>, llm_answer |-> "", failing |-> {}],
    [chunks |-> <<Chunk("kb-001", 0, "Password reset", 20),
                  Chunk("kb-002", 0, "Lab access", 40),
                  Chunk("kb-001", 1, "Password reset", 30)>>,
     rows |-> <<Chunk("kb-001", 0, "Password reset", 0),
                Chunk("kb-002", 0, "Lab access", 0),
                Chunk("kb-001", 1, "Password reset", 0)>>,
     llm_answer |-> "Based on the knowledge base, follow the documented steps.",
     failing |-> {}],
    [chunks |-> <<Chunk("kb-003", 0, "VM recovery", 80),
                  Chunk("kb-004", 0, "Billing", 95)>>,
     rows |-> <<Chunk("kb-003", 0, "VM recovery", 0),
                Chunk("kb-004", 0, "Billing", 0)>>,
     llm_answer |-> "The knowledge base has no close match.",
     failing |-> {}] }

StatusArguments == {"in_progress", "BOGUS"}

\* the ticket ids of the requests: known once the ticket is created
TicketArguments == {"tkt-1", "tkt-2"}

CurrentDb == Database(conversations, messages, tickets, guardrail_events, now)

\* the tables and the clock become those of db
Commit(db) ==
    /\ conversations' = db.conversations
    /\ messages' = db.messages
    /\ tickets' = db.tickets
    /\ guardrail_events' = db.guardrail_events
    /\ now' = db.now

Init ==
    /\ EmptyStore
    /\ kb \in Backends
    /\ call = NoCall

\* the request as one transaction: a request that ends in the internal-error
\* response leaves the store as it found it
Serve_Atomic(request) ==
    /\ \E outcome \in {chat(CurrentDb, request, kb)} :
          /\ IF outcome.path = "error"
             THEN UNCHANGED <<conversations, messages, tickets, guardrail_events, now>>
             ELSE Commit(outcome.db)
          /\ last' = [op |-> "chat", request |-> request,
                      status_code |-> IF outcome.path = "error" THEN 500 ELSE 200,
                      response |-> outcome.response, path |-> outcome.path,
                      rag_called |-> outcome.rag_called]
    /\ chats' = chats + 1
    /\ UNCHANGED <<kb, updates, call, handlers, ingestion>>

Serve(request) ==
    /\ \E outcome \in {chat(CurrentDb, request, kb)} :
          /\ Commit(outcome.db)
          /\ last' = [op |-> "chat", request |-> request,
                      status_code |-> IF outcome.path = "error" THEN 500 ELSE 200,
                      response |-> outcome.response, path |-> outcome.path,
                      rag_called |-> outcome.rag_called]
    /\ chats' = chats + 1
    /\ UNCHANGED <<kb, updates, call, handlers, ingestion>>

Chat(request) == chats < MaxChats /\ Serve(request)

UpdateTicketStatus(ticket_id, status) ==
    /\ updates < MaxUpdates
    /\ \E reply \in {update_ticket_status(CurrentDb, ticket_id, status)} :
          /\ Commit(reply.db)
          /\ last' = [op |-> "update_ticket_status", ticket_id |-> ticket_id,
                      status |-> status, status_code |-> reply.status_code,
                      body |-> reply.body]
    /\ updates' = updates + 1
    /\ UNCHANGED <<kb, chats, call, handlers, ingestion>>

GetTickets(session_id, status) ==
    /\ \E reply \in {get_tickets(CurrentDb, session_id, status, 50)} :
          /\ Commit(reply.db)
          /\ last' = [op |-> "get_tickets", session_id |-> session_id, status |-> status,
                      status_code |-> reply.status_code, body |-> reply.body]
    /\ UNCHANGED <<kb, chats, updates, call, handlers, ingestion>>

GetTicket(ticket_id) ==
    /\ \E reply \in {get_ticket(CurrentDb, ticket_id)} :
          /\ Commit(reply.db)
          /\ last' = [op |-> "get_ticket", ticket_id |-> ticket_id,
                      status_code |-> reply.status_code, body |-> reply.body]
    /\ UNCHANGED <<kb, chats, updates, call, handlers, ingestion>>

GetMetricsSummary ==
    /\ \E reply \in {get_metrics_summary(CurrentDb)} :
          /\ Commit(reply.db)
          /\ last' = [op |-> "get_metrics_summary",
                      status_code |-> reply.status_code, body |-> reply.body]
    /\ UNCHANGED <<kb, chats, updates, call, handlers, ingestion>>

Next ==
    \/ \E request \in Requests : Chat(request)
    \/ \E ticket_id \in TicketArguments, status \in StatusArguments :
          UpdateTicketStatus(ticket_id, status)
    \/ \E session_id \in {Some("s1")}, status \in {Some("new")} :
          GetTickets(session_id, status)
    \/ \E ticket_id \in {"tkt-1"} : GetTicket(ticket_id)
    \/ GetMetricsSummary

Spec == Init /\ [][Next]_vars

-----------------------------------------------------------------------------
(* The chat endpoint of a deployment whose dependencies fail: a set of     *)
(* dependencies raises while the requests are served                       *)

DegradedRequests == {
    Request("s1", "trainee", "My clock is behind and authentication fails"),
    Request("s1", "trainee", "URGENT: clock sync failed on my lab VM"),
    Request("s1", "trainee", "How to fix a kernel panic on my lab VM"),
    Request("s1", "trainee", "How do I access the Host Machine?"),
    Request("s1", "trainee", "How do I reset my password?") }

KbRow(kb_id, title, content, distance) ==
    [id |-> kb_id \o "_chunk_0", kb_id |-> kb_id, title |-> title,
     content |-> content, distance |-> distance]

KbRows == <<
    KbRow("kb-010", "Time drift and clock sync",
          "Clock drift breaks authentication; escalate it to a support engineer.", 20),
    KbRow("kb-011", "Kernel panic",
          "A kernel panic needs platform engineering; open a ticket for the lab VM.", 30),
    KbRow("kb-012", "Password reset", "Use the portal.", 40) >>

\* an answer on the subject, an answer too short to stand, and a long answer
\* off the subject
LlmAnswers == {
    "Time synchronization is managed by the platform. Trainees and instructors cannot change the clock of a lab VM. "
        \o "Please escalate the issue to Tier 2 with the VM name and the approximate skew, and wait for a support engineer to confirm that the drift is corrected.",
    "Please check the lab guide.",
    "The portal lists every lab that is assigned to your account. Open the lab page, choose the module you are working on and follow the instructions that are shown there. "
        \o "Your progress is saved whenever you leave the page." }

\* every combination of failing retrieval and generation dependencies, a
\* failing template generation, and failing writes of the store
FaultSets ==
    (SUBSET {"embedding", "index", "keyword", "llm"})
    \cup {{"llm", "template"}, {"embedding", "index", "keyword", "llm", "template"},
          {"event"}, {"ticket"}, {"message"}}

DegradedBackends ==
    {[chunks |-> KbRows, rows |-> KbRows, llm_answer |-> a, failing |-> f] :
        a \in LlmAnswers, f \in FaultSets}

InitDegraded ==
    /\ EmptyStore
    /\ kb \in DegradedBackends
    /\ call = NoCall

NextDegraded == \E request \in DegradedRequests : Chat(request)

SpecDegraded == InitDegraded /\ [][NextDegraded]_vars

-----------------------------------------------------------------------------
(* Chat requests that interleave: every worker serves one request, and a   *)
(* step of a worker is one statement of its request on the store, a query  *)
(* or a commit. The handler reads the store three times: the conversation  *)
(* of the session (session_store.py 29-31), the history of the session     *)
(* (chat.py 32), and the message count of its conversation in every        *)
(* add_message (session_store.py 73-75). What it writes after the history  *)
(* read depends on that read only, so the rows are those of chat on the    *)
(* store as read, written one commit at a time.                            *)

MaxWorkers == 2

Workers == 1..MaxWorkers

\* the requests of the workers, in the order of the workers: an allowed and
\* a blocked request of the same session, from different roles
ConcurrentRequests == <<
    Request("s1", "trainee", "How do I reset my password?"),
    Request("s1", "instructor", "How do I access the Host Machine?") >>

RequestOf(w) == ConcurrentRequests[((w - 1) % Len(ConcurrentRequests)) + 1]

ConcurrentBackend ==
    [chunks |-> <<Chunk("kb-001", 0, "Password reset", 20)>>,
     rows |-> <<Chunk("kb-001", 0, "Password reset", 0)>>,
     llm_answer |-> "Open the portal and choose Reset password.",
     failing |-> {}]

Arrived(request) ==
    [pc |-> "lookup", request |-> request, conversation |-> None,
     looked_at |-> 0, statements |-> <<>>, message_count |-> 0]

RowsAt(table, t) == LET At(row) == row.created_at = t IN SelectSeq(table, At)

Written(db, t) ==
    IF RowsAt(db.guardrail_events, t) # <<>>
    THEN [table |-> "guardrail_events", row |-> RowsAt(db.guardrail_events, t)[1]]
    ELSE IF RowsAt(db.tickets, t) # <<>>
    THEN [table |-> "tickets", row |-> RowsAt(db.tickets, t)[1]]
    ELSE [table |-> "messages", row |-> RowsAt(db.messages, t)[1]]

\* chat.py lines 32-319: the rows the handler inserts, in program order
Statements(db, request, backend) ==
    LET after == chat(db, request, backend).db
    IN  [i \in 1..(after.now - db.now) |-> Written(after, db.now + i)]

Advance(w, rest) ==
    [handlers EXCEPT ![w].statements = rest,
                     ![w].pc = IF rest = <<>> THEN "done" ELSE "statement"]

Served(w) == IF Len(handlers[w].statements) = 1 THEN chats + 1 ELSE chats

InitConcurrent ==
    /\ conversations = <<>>
    /\ messages = <<>>
    /\ tickets = <<>>
    /\ guardrail_events = <<>>
    /\ now = 0
    /\ chats = 0
    /\ updates = 0
    /\ last = NoRequest
    /\ call = NoCall
    /\ kb = ConcurrentBackend
    /\ handlers = [w \in Workers |-> Arrived(RequestOf(w))]
    /\ ingestion = NoIngestion

\* a variant of the lookup that takes the caller's role over
Lookup_TakesRole(w) ==
    /\ handlers[w].pc = "lookup"
    /\ LET found == ConversationOf(CurrentDb, handlers[w].request.sessionId) IN
          /\ handlers' = [handlers EXCEPT
                 ![w].pc = IF found = 0 THEN "insert" ELSE "history",
                 ![w].conversation =
                     IF found = 0 THEN None
                     ELSE Some([conversations[found] EXCEPT
                                   !.user_role = handlers[w].request.userRole]),
                 ![w].looked_at = now]
          /\ conversations' =
                 IF found = 0 THEN conversations
                 ELSE [conversations EXCEPT
                          ![found].user_role = handlers[w].request.userRole]
    /\ UNCHANGED <<messages, tickets, guardrail_events, kb, now,
                   chats, updates, last, call, ingestion>>

\* session_store.py lines 29-31: the query of get_or_create_conversation
Lookup(w) ==
    /\ handlers[w].pc = "lookup"
    /\ LET found == ConversationOf(CurrentDb, handlers[w].request.sessionId) IN
          handlers' = [handlers EXCEPT
              ![w].pc = IF found = 0 THEN "insert" ELSE "history",
              ![w].conversation = IF found = 0 THEN None
                                  ELSE Some(conversations[found]),
              ![w].looked_at = now]
    /\ UNCHANGED <<conversations, messages, tickets, guardrail_events, kb, now,
                   chats, updates, last, call, ingestion>>

\* a variant of the insert under a uniqueness rule on session_id: a worker
\* whose lookup missed adopts the conversation created in the meantime
Insert_Unique(w) ==
    /\ handlers[w].pc = "insert"
    /\ LET found == ConversationOf(CurrentDb, handlers[w].request.sessionId)
           conversation ==
               [id |-> "conv-" \o ToString(Len(conversations) + 1),
                session_id |-> handlers[w].request.sessionId,
                user_role |-> handlers[w].request.userRole,
                message_count |-> 0,
                created_at |-> now + 1,
                updated_at |-> now + 1]
       IN  IF found = 0
           THEN /\ conversations' = Append(conversations, conversation)
                /\ handlers' = [handlers EXCEPT ![w].pc = "history",
                                                ![w].conversation = Some(conversation)]
           ELSE /\ conversations' = conversations
                /\ handlers' = [handlers EXCEPT ![w].pc = "history",
                                                ![w].conversation = Some(conversations[found])]
    /\ now' = now + 1
    /\ UNCHANGED <<messages, tickets, guardrail_events, kb, chats, updates, last, call, ingestion>>

\* session_store.py lines 33-40: the insert of get_or_create_conversation
Insert(w) ==
    /\ handlers[w].pc = "insert"
    /\ LET conversation ==
               [id |-> "conv-" \o ToString(Len(conversations) + 1),
                session_id |-> handlers[w].request.sessionId,
                user_role |-> handlers[w].request.userRole,
                message_count |-> 0,
                created_at |-> now + 1,
                updated_at |-> now + 1]
       IN  /\ conversations' = Append(conversations, conversation)
           /\ handlers' = [handlers EXCEPT ![w].pc = "history",
                                           ![w].conversation = Some(conversation)]
    /\ now' = now + 1
    /\ UNCHANGED <<messages, tickets, guardrail_events, kb, chats, updates, last, call, ingestion>>

\* chat.py line 32: the history query, which fixes what the request writes
ReadHistory(w) ==
    /\ handlers[w].pc = "history"
    /\ handlers' = Advance(w, Statements(CurrentDb, handlers[w].request, kb))
    /\ UNCHANGED <<conversations, messages, tickets, guardrail_events, kb, now,
                   chats, updates, last, call, ingestion>>

\* guardrail.py lines 99-108 and escalation.py lines 30-45: the insert and
\* commit of a guardrail event or of a ticket
WriteRow(w) ==
    /\ handlers[w].pc = "statement"
    /\ Head(handlers[w].statements).table # "messages"
    /\ LET row == Head(handlers[w].statements).row IN
          IF Head(handlers[w].statements).table = "guardrail_events"
          THEN /\ guardrail_events' = Append(guardrail_events,
                      [row EXCEPT !.id = "evt-" \o ToString(Len(guardrail_events) + 1),
                                  !.created_at = now + 1])
               /\ UNCHANGED tickets
          ELSE /\ tickets' = Append(tickets,
                      [row EXCEPT !.id = "tkt-" \o ToString(Len(tickets) + 1),
                                  !.conversation_id = handlers[w].conversation[1].id,
                                  !.created_at = now + 1,
                                  !.updated_at = now + 1])
               /\ UNCHANGED guardrail_events
    /\ now' = now + 1
    /\ chats' = Served(w)
    /\ handlers' = Advance(w, Tail(handlers[w].statements))
    /\ UNCHANGED <<conversations, messages, kb, updates, last, call, ingestion>>

\* session_store.py lines 73-75: the query of add_message for the count
ReadCount(w) ==
    /\ handlers[w].pc = "statement"
    /\ Head(handlers[w].statements).table = "messages"
    /\ LET owner == FirstIndex(conversations, "id", handlers[w].conversation[1].id) IN
          handlers' = [handlers EXCEPT
              ![w].message_count = conversations[owner].message_count,
              ![w].pc = "commit"]
    /\ UNCHANGED <<conversations, messages, tickets, guardrail_events, kb, now,
                   chats, updates, last, call, ingestion>>

\* session_store.py lines 76-80: the commit of add_message, which inserts
\* the message and updates the conversation to the count read plus one
CommitMessage(w) ==
    /\ handlers[w].pc = "commit"
    /\ LET owner == FirstIndex(conversations, "id", handlers[w].conversation[1].id)
           row == Head(handlers[w].statements).row
       IN  /\ messages' = Append(messages,
                  [row EXCEPT !.id = "msg-" \o ToString(Len(messages) + 1),
                              !.conversation_id = handlers[w].conversation[1].id,
                              !.created_at = now + 1])
           /\ conversations' = [conversations EXCEPT
                  ![owner].message_count = handlers[w].message_count + 1,
                  ![owner].updated_at = now + 1]
    /\ now' = now + 1
    /\ chats' = Served(w)
    /\ handlers' = Advance(w, Tail(handlers[w].statements))
    /\ UNCHANGED <<tickets, guardrail_events, kb, updates, last, call, ingestion>>

NextConcurrent ==
    \E w \in Workers :
        \/ Lookup(w)
        \/ Insert(w)
        \/ ReadHistory(w)
        \/ WriteRow(w)
        \/ ReadCount(w)
        \/ CommitMessage(w)

SpecConcurrent == InitConcurrent /\ [][NextConcurrent]_vars

-----------------------------------------------------------------------------
(* The history query on the stores that chat requests leave                *)

HistorySessions == {"s1", "s2", "s9"}

HistoryLimits == {1, 2, 3, 10}

GetConversationHistory(session_id, limit) ==
    /\ call' = [fn |-> "get_conversation_history", session_id |-> session_id,
                limit |-> limit,
                result |-> get_conversation_history(CurrentDb, session_id, limit)]
    /\ UNCHANGED store

NextHistory ==
    \/ \E request \in Requests : Chat(request)
    \/ \E session_id \in HistorySessions, limit \in HistoryLimits :
          GetConversationHistory(session_id, limit)

SpecHistory == Init /\ [][NextHistory]_vars

-----------------------------------------------------------------------------
(* The metrics endpoints over three sessions, with time passing between    *)
(* the requests                                                            *)

MaxMetricsChats == 3
MaxClock == 5

MetricsSessions == {"s1", "s2", "s3"}

\* of each session, a question that is answered and one that is blocked and
\* ticketed
MetricsRequests ==
    {Request(session_id, "trainee", message) :
        session_id \in MetricsSessions,
        message \in {"How do I reset my password?",
                     "How do I access the Host Machine?"}}

MetricsBackend == CHOOSE backend \in Backends : Len(backend.chunks) = 3

DaysArguments == {0, 1, 2}

InitMetrics ==
    /\ EmptyStore
    /\ kb = MetricsBackend
    /\ call = NoCall

\* the clock moves on between two requests
Pass ==
    /\ now < MaxClock
    /\ now' = now + 1
    /\ UNCHANGED <<conversations, messages, tickets, guardrail_events, kb,
                   chats, updates, last, call, handlers, ingestion>>

GetMetricsTrends(days) ==
    /\ \E reply \in {get_metrics_trends(CurrentDb, days)} :
          /\ Commit(reply.db)
          /\ last' = [op |-> "get_metrics_trends", days |-> days,
                      status_code |-> reply.status_code, body |-> reply.body]
    /\ UNCHANGED <<kb, chats, updates, call, handlers, ingestion>>

ServeMetrics(request) == chats < MaxMetricsChats /\ Serve(request)

NextMetrics ==
    \/ \E request \in MetricsRequests : ServeMetrics(request)
    \/ Pass
    \/ GetMetricsSummary
    \/ \E days \in DaysArguments : GetMetricsTrends(days)

SpecMetrics == InitMetrics /\ [][NextMetrics]_vars

-----------------------------------------------------------------------------
(* The ingestion scripts: one run of a script over the KB files, a file at *)
(* a time. kb.chunks is the vector index and kb.rows the table kb_chunks;  *)
(* ingestion.pending holds the rows added to the session of the run and    *)
(* not yet committed.                                                      *)

MaxFiles == 3

\* a KB file: the id of its article and the number of chunks of its text
KbFile(kb_id, chunks) == [kb_id |-> kb_id, chunks |-> chunks]

KbFiles == [i \in 1..MaxFiles |-> KbFile("KB-00" \o ToString(i), 1 + (i % 2))]

Scripts == {"ingest_kb", "ingest_kb_without_embeddings", "add_mock_kb"}

\* what can fail while a file is ingested: the embedding call, the add to
\* the vector index, the commit of the session
IngestFaults == {"none", "embedding", "vector", "commit"}

\* the chunks of the login article that add_mock_kb.py seeds
mock_chunks ==
    <<[id |-> "kb-login-001-chunk-0", kb_id |-> "KB-LOGIN-001",
       title |-> "Login redirection", content |-> "Steps for Login redirection",
       distance |-> 0],
      [id |-> "kb-login-001-chunk-1", kb_id |-> "KB-LOGIN-001",
       title |-> "Login redirection", content |-> "Steps for Login redirection",
       distance |-> 0]>>

Run(chunks, rows, pending) == [chunks |-> chunks, rows |-> rows, pending |-> pending]

\* ingest_kb.py: every chunk is added to the session under its chunk id, then
\* the texts are embedded, the chunks added to the vector index, and the
\* session committed; a failure leaves the function there, with the session
\* as it is. A commit writes every row the session holds; a failed commit
\* rolls the session back.
ingest_kb_file(run, file, fault) ==
    LET chunk_objects ==
            [i \in 1..file.chunks |-> Chunk(file.kb_id, i - 1, file.kb_id, 0)]
        session == run.pending \o chunk_objects
    IN  IF fault \in {"embedding", "vector"}
        THEN Run(run.chunks, run.rows, session)
        ELSE IF fault = "commit"
        THEN Run(run.chunks \o chunk_objects, run.rows, <<>>)
        ELSE Run(run.chunks \o chunk_objects, run.rows \o session, <<>>)

\* str(uuid.uuid4()), the default id of a KBChunk: an id no row has yet
uuid4(rows) == "uuid-" \o ToString(Len(rows) + 1)

\* ingest_kb_without_embeddings.py: the chunks go to the vector index under
\* "<kb_id>-chunk-<idx>", then one row for the file, with no id given, is
\* added and committed; any failure is logged and the file counts 0 chunks
process_file(run, file, fault) ==
    LET chunks ==
            [i \in 1..file.chunks |->
                [Chunk(file.kb_id, i - 1, file.kb_id, 0) EXCEPT
                    !.id = file.kb_id \o "-chunk-" \o ToString(i - 1)]]
        kb_chunk == [Chunk(file.kb_id, 0, file.kb_id, 0) EXCEPT !.id = uuid4(run.rows)]
    IN  IF fault = "vector"
        THEN run
        ELSE IF fault = "commit"
        THEN Run(run.chunks \o chunks, run.rows, <<>>)
        ELSE Run(run.chunks \o chunks, run.rows \o run.pending \o <<kb_chunk>>, <<>>)

\* add_mock_kb.py: the mock chunks go to the vector index, then a row per
\* chunk, under the id of the chunk, is added and committed
add_mock_chunks(run, fault) ==
    IF fault = "vector"
    THEN run
    ELSE IF fault = "commit"
    THEN Run(run.chunks \o mock_chunks, run.rows, <<>>)
    ELSE Run(run.chunks \o mock_chunks, run.rows \o run.pending \o mock_chunks, <<>>)

InitIngest ==
    /\ conversations = <<>>
    /\ messages = <<>>
    /\ tickets = <<>>
    /\ guardrail_events = <<>>
    /\ now = 0
    /\ chats = 0
    /\ updates = 0
    /\ last = NoRequest
    /\ handlers = <<>>
    /\ call = NoCall
    /\ kb = [chunks |-> <<>>, rows |-> <<>>, llm_answer |-> "", failing |-> {}]
    /\ \E script \in Scripts :
          ingestion = [script |-> script, file |-> 1, pending |-> <<>>,
                       closed |-> FALSE]

CurrentRun == Run(kb.chunks, kb.rows, ingestion.pending)

\* the stores and the session become those of run, and the script moves on
\* to its next file
Proceed(run) ==
    /\ kb' = [kb EXCEPT !.chunks = run.chunks, !.rows = run.rows]
    /\ ingestion' = [ingestion EXCEPT !.pending = run.pending, !.file = @ + 1]
    /\ UNCHANGED <<conversations, messages, tickets, guardrail_events, now,
                   chats, updates, last, call, handlers>>

\* one turn of the loop of main in ingest_kb.py: an exception of the file is
\* logged and the loop goes on
IngestKbFile(fault) ==
    /\ ingestion.script = "ingest_kb"
    /\ ~ingestion.closed
    /\ ingestion.file <= Len(KbFiles)
    /\ Proceed(ingest_kb_file(CurrentRun, KbFiles[ingestion.file], fault))

\* one turn of the loop of main in ingest_kb_without_embeddings.py
ProcessFile(fault) ==
    /\ ingestion.script = "ingest_kb_without_embeddings"
    /\ ~ingestion.closed
    /\ ingestion.file <= Len(KbFiles)
    /\ fault # "embedding"
    /\ Proceed(process_file(CurrentRun, KbFiles[ingestion.file], fault))

AddMockChunks(fault) ==
    /\ ingestion.script = "add_mock_kb"
    /\ ~ingestion.closed
    /\ ingestion.file = 1
    /\ fault # "embedding"
    /\ Proceed(add_mock_chunks(CurrentRun, fault))

\* the end of the run: db.close() in the finally of the script drops what
\* the session still holds
Close ==
    /\ ~ingestion.closed
    /\ \/ ingestion.script = "add_mock_kb" /\ ingestion.file > 1
       \/ ingestion.script # "add_mock_kb" /\ ingestion.file > Len(KbFiles)
    /\ ingestion' = [ingestion EXCEPT !.pending = <<>>, !.closed = TRUE]
    /\ UNCHANGED <<conversations, messages, tickets, guardrail_events, kb, now,
                   chats, updates, last, call, handlers>>

NextIngest ==
    \/ \E fault \in IngestFaults : IngestKbFile(fault)
    \/ \E fault \in IngestFaults : ProcessFile(fault)
    \/ \E fault \in IngestFaults : AddMockChunks(fault)
    \/ Close

SpecIngest == InitIngest /\ [][NextIngest]_vars

-----------------------------------------------------------------------------
(* The resolution of a KB conflict (services/rag_service.py 619-872). A    *)
(* chunk carries version, date and source as the index search returns      *)
(* them; a value of the metadata is a string, as the ingestion scripts     *)
(* write it, or a number. Scores and versions are in tenths of a version.  *)

ConflictPhrases == <<
    "kb docs say different", "kb documents say different", "two kb", "multiple kb",
    "conflicting kb", "kb conflict", "which kb", "which is right", "which is correct",
    "different things", "conflicting", "say different" >>

\* lines 633-640: the words of the query that name the topic
TopicWords(query_lower) ==
    LET Topical(w) == Len(w) > 2 /\ w \notin {"about", "the", "and", "or", "for", "with"}
    IN  SelectSeq(Split(Strip(RemoveAll(query_lower, ConflictPhrases))), Topical)

\* lines 643-647
TopicPhrasesOf(query_lower) ==
    LET topic_query == Strip(RemoveAll(query_lower, ConflictPhrases))
    IN  (IF Contains(topic_query, "mfa") /\ Contains(topic_query, "reset")
         THEN <<"mfa reset">> ELSE <<>>)
        \o (IF Contains(topic_query, "password") /\ Contains(topic_query, "reset")
            THEN <<"password reset">> ELSE <<>>)

\* lines 652-681: a topic phrase, or two topic words (the only one, when
\* there is one), in the content, the title or the KB id of the chunk
IsRelevant(chunk, topic_words, topic_phrases) ==
    LET Has(k) == \/ Contains(Lower(chunk.content), k)
                  \/ Contains(Lower(chunk.title), k)
                  \/ Contains(Lower(chunk.kb_id), k)
        matched_words == Cardinality({i \in 1..Len(topic_words) : Has(topic_words[i])})
    IN  IF \E j \in 1..Len(topic_phrases) : Has(topic_phrases[j]) THEN TRUE
        ELSE IF topic_words # <<>>
        THEN IF Len(topic_words) >= 2 THEN matched_words >= 2 ELSE matched_words >= 1
        ELSE topic_phrases = <<>>

\* lines 694-701: the first chunk of every KB id, in the order of the chunks
FirstOfEachKb(chunks) ==
    LET First(i) == /\ chunks[i].kb_id # ""
                    /\ \A j \in 1..(i - 1) : chunks[j].kb_id # chunks[i].kb_id
        firsts == {i \in 1..Len(chunks) : First(i)}
        RECURSIVE InOrder(_)
        InOrder(from) ==
            IF \A i \in firsts : i < from THEN <<>>
            ELSE LET i == Least({k \in firsts : k >= from})
                 IN  <<chunks[i]>> \o InOrder(i + 1)
    IN  InOrder(1)

YearOf == [y2023 |-> 2023, y2024 |-> 2024]

\* lines 742-752: datetime.strptime(str(date)[:10], fmt).year for the formats
\* %Y-%m-%d, %Y-%m and %Y, 0 when none parses
Year(date) ==
    LET d == Prefix(date, 10)
        shaped == \/ Len(d) = 4
                  \/ Len(d) = 7 /\ CharAt(d, 5) = "-"
                  \/ Len(d) = 10 /\ CharAt(d, 5) = "-" /\ CharAt(d, 8) = "-"
        key == "y" \o Prefix(d, 4)
    IN  IF shaped /\ key \in DOMAIN YearOf THEN YearOf[key] ELSE 0

\* lines 727-765: 100 points per version when the version is a number, the
\* year of the date and 10 points when there is a date, 50 points for an
\* official source; here in tenths of a point
ConflictScore(chunk) ==
    (IF chunk.version.kind = "float" THEN chunk.version.tenths * 100 ELSE 0)
    + (IF chunk.date # "" THEN (Year(chunk.date) + 10) * 10 ELSE 0)
    + (IF \/ Contains(Lower(chunk.source), "official")
          \/ Contains(Lower(chunk.source), "authoritative")
       THEN 500 ELSE 0)

\* lines 731-769: the first chunk whose score is above that of every chunk
\* before it and not below that of any chunk after it
BestChunk(candidates) ==
    candidates[Least({i \in 1..Len(candidates) :
                        \A j \in 1..Len(candidates) :
                            ConflictScore(candidates[j]) <= ConflictScore(candidates[i])})]

\* lines 797-806: the version as the explanation prints it
VersionDisplay(version) ==
    IF version.text = "" THEN ""
    ELSE IF /\ version.kind = "float"
            /\ Len(version.text) >= 2
            /\ SubSeq(version.text, Len(version.text) - 1, Len(version.text)) = ".0"
    THEN SubSeq(version.text, 1, Len(version.text) - 2)
    ELSE version.text

ConflictGenericAnswer == "I found multiple KB documents on this topic. To determine which is most accurate, I would need to compare their metadata (version, date, source). I recommend checking the version numbers and update dates of the documents, and following the most recent one. If you need assistance determining which is correct, please create a support ticket."

\* lines 808-828: the explanation of the choice
Explanation(best_chunk, others, topic_words) ==
    "After comparing the conflicting KB documents"
    \o (IF topic_words # <<>> THEN " about " \o Join(Top(topic_words, 3), " ") ELSE "")
    \o ", the most authoritative source is '" \o best_chunk.title
    \o "' (ID: " \o best_chunk.kb_id \o ")."
    \o (IF VersionDisplay(best_chunk.version) # ""
        THEN " This document has version " \o VersionDisplay(best_chunk.version)
                \o ", which is the most recent."
        ELSE "")
    \o (IF best_chunk.date # "" THEN " It was last updated on " \o best_chunk.date \o "."
        ELSE "")
    \o (IF others # <<>>
        THEN " The other document(s) ("
                \o Join([i \in 1..Len(Top(others, 2)) |-> others[i].title], ", ")
                \o ") are older or have lower version numbers."
        ELSE "")
    \o " I recommend following the guidance in this document. If you still have questions, please create a support ticket."

\* _handle_kb_conflict: the chunks of the topic (all chunks when none is),
\* grouped by KB id; with more than one KB id the chunk of the best score is
\* declared authoritative, otherwise the generic answer is given
handle_kb_conflict(query, context_chunks) ==
    LET topic_words == TopicWords(Lower(query))
        topic_phrases == TopicPhrasesOf(Lower(query))
        OnTopic(chunk) == IsRelevant(chunk, topic_words, topic_phrases)
        filtered == SelectSeq(context_chunks, OnTopic)
        relevant_chunks == IF filtered = <<>> THEN context_chunks ELSE filtered
        candidates == FirstOfEachKb(relevant_chunks)
    IN  IF Len(candidates) > 1
        THEN LET best_chunk == BestChunk(candidates)
                 Other(chunk) == chunk.kb_id # best_chunk.kb_id
             IN  [answer |-> Explanation(best_chunk, SelectSeq(candidates, Other),
                                         topic_words),
                  kbReferences |-> <<[id |-> best_chunk.kb_id, title |-> best_chunk.title,
                                      snippet |-> Prefix(best_chunk.content, 200)]>>,
                  confidence |-> 80]
        ELSE [answer |-> ConflictGenericAnswer,
              kbReferences |->
                  [i \in 1..Len(Top(context_chunks, 3)) |->
                      [id |-> context_chunks[i].kb_id, title |-> context_chunks[i].title,
                       snippet |-> Prefix(context_chunks[i].content, 200)]],
              confidence |-> 60]

ConflictQuery == "Two KB docs say different things about MFA reset"

VersionKinds == {"str", "float"}
ConflictDates == {"", "2023-05-01", "2024-01-15"}
ConflictSources == {"kb", "Official KB"}

\* the old and the new article on the MFA reset, and an article on another
\* subject
ConflictChunk(kb_id, title, content, kind, text, tenths, date, source) ==
    [id |-> kb_id \o "-chunk-0", kb_id |-> kb_id, title |-> title, content |-> content,
     version |-> [kind |-> kind, text |-> text, tenths |-> tenths],
     date |-> date, source |-> source, distance |-> 30]

OldArticle(kind, date, source) ==
    ConflictChunk("kb-mfa-001", "MFA Reset (legacy)", "To do an MFA reset, call the help desk.",
                  kind, "1.0", 10, date, source)

NewArticle(kind, date, source) ==
    ConflictChunk("kb-mfa-002", "MFA Reset", "To do an MFA reset, use the self-service portal.",
                  kind, "2.0", 20, date, source)

OtherArticle(kind) ==
    ConflictChunk("kb-vpn-001", "VPN setup", "Install the VPN client.",
                  kind, "3.0", 30, "", "kb")

\* what retrieval hands over: two or three of the articles, in any order
ConflictContexts ==
    UNION {LET a == OldArticle(kind, old_date, old_source)
               b == NewArticle(kind, new_date, "kb")
               c == OtherArticle(kind)
           IN  {<<a, b>>, <<b, a>>, <<a, c>>, <<c, a>>, <<a, b, c>>, <<c, b, a>>,
                <<b, c, a>>} :
             kind \in VersionKinds, old_date \in ConflictDates,
             old_source \in ConflictSources, new_date \in {"", "2024-01-15"}}

InitConflict ==
    /\ EmptyStore
    /\ kb = <<>>
    /\ \E context_chunks \in ConflictContexts :
          call = [fn |-> "_handle_kb_conflict", query |-> ConflictQuery,
                  context_chunks |-> context_chunks, done |-> FALSE,
                  result |-> [answer |-> "", kbReferences |-> <<>>, confidence |-> 0]]

ApplyConflict ==
    /\ call.fn = "_handle_kb_conflict"
    /\ ~call.done
    /\ call' = [call EXCEPT
          !.done = TRUE,
          !.result = handle_kb_conflict(call.query, call.context_chunks)]
    /\ UNCHANGED store

NextConflict == ApplyConflict

SpecConflict == InitConflict /\ [][NextConflict]_vars

-----------------------------------------------------------------------------
(* One session that keeps reporting that something is not working          *)

MaxAttemptChats == 3

AttemptRequests == {
    Request("s1", "trainee", "It is still not working"),
    Request("s1", "trainee", "How do I access the Host Machine? It is not working"),
    Request("s1", "trainee", "How do I reset my password?"),
    Request("s1", "trainee", "I need database access for my lab"),
    Request("s1", "trainee", "The lab login is not working") }

\* the index with two good matches, and an LLM whose answer speaks of what
\* is not working
AttemptsBackend ==
    [MetricsBackend EXCEPT
        !.llm_answer = "If the reset is still not working, restart the VM and try again."]

InitAttempts ==
    /\ EmptyStore
    /\ kb = AttemptsBackend
    /\ call = NoCall

ServeAttempt(request) == chats < MaxAttemptChats /\ Serve(request)

NextAttempts == \E request \in AttemptRequests : ServeAttempt(request)

SpecAttempts == InitAttempts /\ [][NextAttempts]_vars

-----------------------------------------------------------------------------
(* The two repairs of a time-drift answer, applied to the same answer      *)

RepairQueries == {
    "My clock is behind and authentication fails",
    "Time drift on my VM",
    "How do I sync the time?",
    "The VM is behind and auth fails",
    "How do I reset my password?" }

RECURSIVE Repeat(_, _)
Repeat(s, n) == IF n = 0 THEN "" ELSE s \o Repeat(s, n - 1)

\* 50 characters that hold no keyword of either repair
Filler == "Open the lab portal and look at the status page. "

TemplateOpening == "Based on the knowledge base, here are the steps to resolve your issue:\n\n"
TemplateEnding == "\n\nIf these steps don't resolve your issue, please create a support ticket."

\* what answer generation can hand over: nothing, a short answer, long
\* answers on and off the subject, answers between 150 and 200 characters,
\* answers that are mostly introduction, template answers with and without
\* steps, and the canned answer itself
CandidateAnswers == {
    "",
    "Check the clock.",
    Repeat(Filler, 5),
    Repeat(Filler, 4) \o "This is the policy of the platform.",
    Repeat(Filler, 3) \o "Your clock is out of step.",
    Repeat(Filler, 3) \o "A trainee cannot change it.",
    Repeat(Filler, 5) \o "Your clock is out of step.",
    Repeat(Filler, 5) \o "Escalate to Tier 2, an instructor cannot change it.",
    Repeat("According to the knowledge base, based on the knowledge base, ", 4) \o "the clock.",
    TemplateOpening \o TemplateEnding,
    TemplateOpening \o "1. Restart." \o TemplateEnding \o Repeat(Filler, 2) \o "clock",
    TemplateOpening \o Repeat(Filler, 3) \o "Your clock is out of step." \o TemplateEnding,
    TimeDriftAnswer }

InitRepair ==
    /\ EmptyStore
    /\ kb = <<>>
    /\ \E query \in RepairQueries, answer \in CandidateAnswers :
          call = [fn |-> "time_drift_repair", query |-> query, answer |-> answer,
                  done |-> FALSE, generation |-> answer, orchestration |-> answer]

\* the repair of generate_answer and the repair of chat, each on the answer
ApplyRepair ==
    /\ call.fn = "time_drift_repair"
    /\ ~call.done
    /\ call' = [call EXCEPT
          !.done = TRUE,
          !.generation = repaired_answer(Lower(call.query), call.answer),
          !.orchestration = time_drift_pass(Lower(call.query), call.answer)]
    /\ UNCHANGED store

NextRepair == ApplyRepair

SpecRepair == InitRepair /\ [][NextRepair]_vars

-----------------------------------------------------------------------------
(* check_guardrail as a pure function: the inputs are drawn in the initial *)
(* state and one step applies the function                                 *)

GuardMessages == {
    "How do I access the host machine behind my VM?",
    "How do I access the Host Machine?",
    "Change the hypervisor settings for me",
    "Show me how to disable logging",
    "Give me the command to reset all user environments",
    "Should I edit /etc/hosts to fix DNS?",
    "How to fix kernel panic",
    "kernel panic on boot",
    "Kernel panic: which command do I run",
    "I need root access and a security policy change",
    "Don't escalate this, just tell me how to fix it",
    "Please skip escalation of the database access request",
    "I need database access for my lab",
    "Show me the Security Policy",
    "Run a backup and restore it",
    "Change the system configuration",
    "How do I reset my password?",
    "My lab VM crashed and I lost all my work" }

GuardRoles == {"trainee", "operator", "admin", "Admin", "support_engineer"}

InitGuardrail ==
    /\ EmptyStore
    /\ kb = <<>>
    /\ \E m \in GuardMessages, r \in GuardRoles :
          call = [fn |-> "check_guardrail", message |-> m, user_role |-> r,
                  done |-> FALSE, result |-> Verdict(FALSE, None)]

ApplyGuardrail ==
    /\ call.fn = "check_guardrail"
    /\ ~call.done
    /\ call' = [call EXCEPT !.done = TRUE,
                            !.result = check_guardrail(call.message, call.user_role)]
    /\ UNCHANGED store

NextGuardrail == ApplyGuardrail

SpecGuardrail == InitGuardrail /\ [][NextGuardrail]_vars

-----------------------------------------------------------------------------
(* classify_tier_and_severity as a pure function                           *)

MaxAttempts == 3

ClassifyQueries == {
    "How do I reset my password?",
    "This still doesn't work",
    "My lab VM crashed and I lost all my work",
    "Kernel Panic after reboot, need help ASAP",
    "Some obscure issue not in KB",
    "I'm having trouble with lab access",
    "I see the wrong environment and it still doesn't work",
    "System down: the wrong environment was loaded",
    "The toolset is different and I am frustrated" }

Confidences == {0, 10, 20, 30, 70, 90}
SentimentScores == {0, 20, 40, 50, 65, 80}

InitClassify ==
    /\ EmptyStore
    /\ kb = <<>>
    /\ \E q \in ClassifyQueries, c \in Confidences, s \in SentimentScores,
          h \in BOOLEAN, u \in 0..MaxAttempts :
          call = [fn |-> "classify", query |-> q, kb_match_confidence |-> c,
                  sentiment_score |-> s, has_kb_match |-> h,
                  unresolved_attempts |-> u, done |-> FALSE,
                  result |-> Classification("TIER_2", "LOW", FALSE)]

ApplyClassify ==
    /\ call.fn = "classify"
    /\ ~call.done
    /\ call' = [call EXCEPT
          !.done = TRUE,
          !.result = classify_tier_and_severity(call.query, call.kb_match_confidence,
                        call.sentiment_score, call.has_kb_match,
                        call.unresolved_attempts)]
    /\ UNCHANGED store

NextClassify == ApplyClassify

SpecClassify == InitClassify /\ [][NextClassify]_vars

-----------------------------------------------------------------------------
(* Properties of the chat endpoint                                         *)

\* the rows a step appends to a table, and the rows it keeps
Appended(old, new) == SubSeq(new, Len(old) + 1, Len(new))
KeepsRows(old, new) == Len(new) >= Len(old) /\ SubSeq(new, 1, Len(old)) = old

IsKernelPanicMessage(message) == Contains(Lower(message), "kernel panic")
IsFixMessage(message) == ContainsAny(Lower(message), <<"fix", "debug", "repair">>)
RawVerdict(request) == check_guardrail(request.message, request.userRole)

ChatServed == last.op = "chat"

\* C1: a chat request without "kernel panic" that the guardrail check blocks
\* creates exactly one ticket (TIER_3, HIGH, NEW), stores exactly one message
\* (role user, guardrail_blocked, with the block reason), runs no retrieval
\* or answer generation, stores no assistant message, and answers with
\* confidence 0, TIER_3, HIGH, needsEscalation, guardrail.blocked and the id
\* of that ticket.
C1_BlockedShortCircuit ==
    [][ (/\ chats' = chats + 1
         /\ ~IsKernelPanicMessage(last'.request.message)
         /\ RawVerdict(last'.request).blocked)
        => LET request == last'.request
               response == last'.response
               new_tickets == Appended(tickets, tickets')
               new_messages == Appended(messages, messages')
           IN  /\ KeepsRows(tickets, tickets')
               /\ Len(new_tickets) = 1
               /\ new_tickets[1].tier = "TIER_3"
               /\ new_tickets[1].severity = "HIGH"
               /\ new_tickets[1].status = "NEW"
               /\ new_tickets[1].session_id = request.sessionId
               /\ KeepsRows(messages, messages')
               /\ Len(new_messages) = 1
               /\ new_messages[1].role = "user"
               /\ new_messages[1].content = request.message
               /\ new_messages[1].guardrail_blocked
               /\ new_messages[1].guardrail_reason = RawVerdict(request).reason
               /\ ~last'.rag_called
               /\ response.confidence = 0
               /\ response.tier = "TIER_3"
               /\ response.severity = "HIGH"
               /\ response.needsEscalation
               /\ response.guardrail.blocked
               /\ response.ticketId = Some(new_tickets[1].id) ]_vars

\* a blocked request served in a conversation that has a history
C1_Witness ==
    /\ ChatServed
    /\ chats = 2
    /\ ~IsKernelPanicMessage(last.request.message)
    /\ RawVerdict(last.request).blocked
    /\ Len(conversations) = 1
    /\ last.response.ticketId = Some(tickets[Len(tickets)].id)
    /\ messages[Len(messages)].guardrail_blocked

\* C2: a chat request that the guardrail check blocks, and that is not a
\* kernel-panic query with fix/debug/repair, is answered at the guardrail
\* step with the blocked response and a ticket, without KB answer; a response
\* with guardrail.blocked false is returned only for a message the check did
\* not block.
C2_BlockedIsShortCircuited ==
    ChatServed =>
        /\ (/\ RawVerdict(last.request).blocked
            /\ ~(IsKernelPanicMessage(last.request.message)
                    /\ IsFixMessage(last.request.message)))
           => /\ last.path = "blocked"
              /\ ~last.rag_called
              /\ last.response.guardrail.blocked
              /\ last.response.ticketId # None
        /\ ~last.response.guardrail.blocked => ~RawVerdict(last.request).blocked

\* C3: the response to a chat request whose message contains "kernel panic"
\* and "fix" has needsEscalation true, tier TIER_3, severity HIGH and a
\* ticketId.
C3_KernelPanicFixEscalates ==
    (/\ ChatServed
     /\ IsKernelPanicMessage(last.request.message)
     /\ Contains(Lower(last.request.message), "fix"))
    => /\ last.response.needsEscalation
       /\ last.response.tier = "TIER_3"
       /\ last.response.severity = "HIGH"
       /\ last.response.ticketId # None

\* C4: a chat request appends exactly one guardrail event, written before
\* every ticket and message of the request; its blocked field is the result
\* of the guardrail check for a message without "kernel panic" and false for
\* a message with "kernel panic".
C4_OneEventFirst ==
    [][ chats' = chats + 1
        => LET request == last'.request
               new_events == Appended(guardrail_events, guardrail_events')
               new_tickets == Appended(tickets, tickets')
               new_messages == Appended(messages, messages')
           IN  /\ KeepsRows(guardrail_events, guardrail_events')
               /\ Len(new_events) = 1
               /\ new_events[1].session_id = request.sessionId
               /\ new_events[1].blocked =
                     IF IsKernelPanicMessage(request.message) THEN FALSE
                     ELSE RawVerdict(request).blocked
               /\ \A i \in 1..Len(new_tickets) :
                     new_events[1].created_at < new_tickets[i].created_at
               /\ \A i \in 1..Len(new_messages) :
                     new_events[1].created_at < new_messages[i].created_at ]_vars

\* a kernel-panic request the check blocks: the response reports the block,
\* the event does not
C4_Witness ==
    /\ ChatServed
    /\ IsKernelPanicMessage(last.request.message)
    /\ RawVerdict(last.request).blocked
    /\ last.response.guardrail.blocked
    /\ ~guardrail_events[Len(guardrail_events)].blocked
    /\ guardrail_events[Len(guardrail_events)].reason = last.response.guardrail.reason

-----------------------------------------------------------------------------
(* Properties of the ticket API                                            *)

UpdateServed == last.op = "update_ticket_status"

\* the positions of the tickets with an id
Addressed(table, ticket_id) == {i \in 1..Len(table) : table[i].id = ticket_id}

\* C6 as stated: a created ticket has status NEW; an update-status call with
\* a status outside NEW/IN_PROGRESS/RESOLVED/CLOSED fails with InvalidInput
\* and leaves every stored status unchanged; every stored status is one of
\* the four values.
C6_InvalidStatusIsInvalidInput ==
    [][ /\ \A i \in (Len(tickets) + 1)..Len(tickets') : tickets'[i].status = "NEW"
        /\ (updates' = updates + 1 /\ Upper(last'.status) \notin TicketStatus)
           => /\ last'.status_code = 400
              /\ tickets' = tickets
        /\ \A i \in 1..Len(tickets') : tickets'[i].status \in TicketStatus ]_vars

\* C6 as amended: a created ticket has status NEW; an update-status call
\* with a status outside the four values fails with InvalidInput when the
\* ticket exists and with NotFound when it does not, and leaves every stored
\* status unchanged; every stored status is one of the four values.
C6_InvalidStatusIsRejected ==
    [][ /\ \A i \in (Len(tickets) + 1)..Len(tickets') : tickets'[i].status = "NEW"
        /\ (updates' = updates + 1 /\ Upper(last'.status) \notin TicketStatus)
           => /\ last'.status_code =
                    IF Addressed(tickets, last'.ticket_id) # {} THEN 400 ELSE 404
              /\ tickets' = tickets
        /\ \A i \in 1..Len(tickets') : tickets'[i].status \in TicketStatus ]_vars

\* an existing ticket keeps its status NEW through a rejected update
C6_Witness ==
    /\ UpdateServed
    /\ Upper(last.status) \notin TicketStatus
    /\ last.status_code = 400
    /\ \E i \in Addressed(tickets, last.ticket_id) : tickets[i].status = "NEW"

\* the columns of a ticket that no operation writes after creation
Immutable(t) ==
    <<t.id, t.session_id, t.conversation_id, t.subject, t.description,
      t.tier, t.severity, t.user_role>>

\* C7: no ticket is removed and none changes its id, session, conversation,
\* subject, description, tier, severity or user role; a successful
\* update-status changes only the status and updated_at of the addressed
\* ticket, an update of an unknown id changes nothing, and the list, get and
\* metrics operations change no ticket.
C7_TicketsImmutable ==
    [][ /\ Len(tickets') >= Len(tickets)
        /\ \A i \in 1..Len(tickets) : Immutable(tickets'[i]) = Immutable(tickets[i])
        /\ updates' = updates + 1
           => LET addressed == Addressed(tickets, last'.ticket_id) IN
              /\ Len(tickets') = Len(tickets)
              /\ \A i \in (1..Len(tickets)) \ addressed : tickets'[i] = tickets[i]
              /\ \A i \in addressed :
                    [tickets'[i] EXCEPT !.status = tickets[i].status,
                                        !.updated_at = tickets[i].updated_at] = tickets[i]
              /\ last'.status_code = 200
                 => \A i \in addressed : tickets'[i].status = Upper(last'.status)
              /\ addressed = {}
                 => /\ last'.status_code = 404
                    /\ <<conversations, messages, tickets, guardrail_events>>'
                          = <<conversations, messages, tickets, guardrail_events>>
        /\ (chats' = chats /\ updates' = updates) => tickets' = tickets ]_vars

\* one of two tickets has been moved to IN_PROGRESS
C7_Witness ==
    /\ UpdateServed
    /\ last.status_code = 200
    /\ \E i \in Addressed(tickets, last.ticket_id) :
          /\ tickets[i].status = "IN_PROGRESS"
          /\ tickets[i].updated_at > tickets[i].created_at
          /\ \E j \in (1..Len(tickets)) \ {i} : tickets[j].status = "NEW"

-----------------------------------------------------------------------------
(* Properties of the guardrail engine                                      *)

GuardrailApplied == call.fn = "check_guardrail" /\ call.done

\* pattern i of rules 1-7 is the first one that matches the message
FirstMatch(message_lower, i) ==
    /\ re_search(BLOCKED_PATTERNS[i].pattern, message_lower)
    /\ \A j \in 1..(i - 1) : ~re_search(BLOCKED_PATTERNS[j].pattern, message_lower)

\* C5: a message that matches a pattern of rules 1-7 is blocked with the
\* reason of the first matching pattern, for every role alike (admin and
\* support_engineer included); the role changes the verdict only for a
\* message that matches none of rules 1-7 and matches an admin-only pattern.
C5_RulesIgnoreRole ==
    GuardrailApplied =>
        LET message_lower == Lower(call.message)
            others == {check_guardrail(call.message, r) : r \in GuardRoles}
        IN  /\ \A i \in 1..Len(BLOCKED_PATTERNS) :
                  FirstMatch(message_lower, i) =>
                     /\ call.result = Verdict(TRUE, Some(BLOCKED_PATTERNS[i].reason))
                     /\ others = {call.result}
            /\ others # {call.result} =>
                  /\ \A i \in 1..Len(BLOCKED_PATTERNS) : ~FirstMatch(message_lower, i)
                  /\ MatchesAdminKeyword(message_lower)

\* a privileged role is blocked by the first of two matching rules
C5_Witness ==
    /\ GuardrailApplied
    /\ Lower(call.user_role) \in PrivilegedRoles
    /\ call.result = Verdict(TRUE, Some(HostReason))
    /\ FirstMatch(Lower(call.message), 1)
    /\ re_search(BLOCKED_PATTERNS[3].pattern, Lower(call.message))

-----------------------------------------------------------------------------
(* Properties of the tier and severity classifier                          *)

ClassifyApplied == call.fn = "classify" /\ call.done

\* C8: whenever the classifier returns TIER_3 it returns needsEscalation
\* true.
C8_Tier3Escalates ==
    ClassifyApplied /\ call.result.tier = "TIER_3" => call.result.needs_escalation

ModerateValues == 30..70

\* C9: with unresolvedAttempts >= 3, a query containing "still doesn't
\* work" and moderate confidence and sentiment, the classifier returns
\* needsEscalation true.
C9_ThreeAttemptsEscalate ==
    /\ ClassifyApplied
    /\ call.unresolved_attempts >= 3
    /\ Contains(Lower(call.query), "still doesn't work")
    /\ call.kb_match_confidence \in ModerateValues
    /\ call.sentiment_score \in ModerateValues
    => call.result.needs_escalation

\* C10: a query with a critical keyword is classified TIER_3, CRITICAL,
\* needsEscalation true whatever the other inputs; a query without KB match
\* and without ambiguity word is classified TIER_3, needsEscalation true.
C10_CriticalOrNoMatchIsTier3 ==
    ClassifyApplied =>
        /\ ContainsAny(Lower(call.query), CRITICAL_KEYWORDS) =>
              call.result = Classification("TIER_3", "CRITICAL", TRUE)
        /\ (~call.has_kb_match /\ ~ContainsAny(Lower(call.query), AmbiguityWords)) =>
              /\ call.result.tier = "TIER_3"
              /\ call.result.needs_escalation

\* a critical query that is also ambiguous, with a good and calm KB match
C10_Witness ==
    /\ ClassifyApplied
    /\ ContainsAny(Lower(call.query), CRITICAL_KEYWORDS)
    /\ ContainsAny(Lower(call.query), AmbiguityWords)
    /\ call.has_kb_match
    /\ call.kb_match_confidence >= 30
    /\ call.sentiment_score < 50
    /\ call.result = Classification("TIER_3", "CRITICAL", TRUE)

\* C11: a query without critical keyword, with a KB match of confidence
\* >= 0.3, sentiment < 0.5 and fewer than 2 unresolved attempts is classified
\* TIER_1 with severity LOW or MEDIUM and needsEscalation false; and every
\* TIER_1 classification has needsEscalation false.
C11_GoodMatchIsTier1 ==
    ClassifyApplied =>
        /\ ( /\ ~ContainsAny(Lower(call.query), CRITICAL_KEYWORDS)
             /\ call.has_kb_match
             /\ call.kb_match_confidence >= 30
             /\ call.sentiment_score < 50
             /\ call.unresolved_attempts < 2 ) =>
              /\ call.result.tier = "TIER_1"
              /\ call.result.severity \in {"LOW", "MEDIUM"}
              /\ ~call.result.needs_escalation
        /\ call.result.tier = "TIER_1" => ~call.result.needs_escalation

\* a medium-severity query at the confidence threshold after one unresolved
\* attempt
C11_Witness ==
    /\ ClassifyApplied
    /\ ContainsAny(Lower(call.query), MEDIUM_KEYWORDS)
    /\ ~ContainsAny(Lower(call.query), CRITICAL_KEYWORDS)
    /\ call.has_kb_match
    /\ call.kb_match_confidence = 30
    /\ call.sentiment_score = 40
    /\ call.unresolved_attempts = 1
    /\ call.result = Classification("TIER_1", "MEDIUM", FALSE)

\* the request is not answered at the guardrail step, so retrieval and the
\* clarifying check run
ReachesRetrieval(request) ==
    ~(EffectiveBlocked(IsKernelPanicMessage(request.message), RawVerdict(request).blocked)
      /\ ~IsKernelPanicMessage(request.message))

\* the verdict of the clarifying check on what retrieval returns for the request
ClarifyVerdict(request, backend) ==
    LET rag_result == process_query(backend, request.message, 5)
    IN  should_ask_clarifying_question(request.message,
            Len(rag_result.kbReferences), rag_result.confidence)

RagResult(request, backend) == process_query(backend, request.message, 5)

\* answer generation fails, or its answer is blank, shorter than 150
\* characters or without any time-drift keyword
GenerationDefective(request, backend) ==
    LET answer == RagResult(request, backend).answer
    IN  \/ {"llm", "template"} \subseteq backend.failing
        \/ Strip(answer) = ""
        \/ Len(Strip(answer)) < 150
        \/ ~ContainsAny(Lower(answer), TimeDriftKeywords)

\* C13: for every chat request whose message matches the time-drift
\* heuristic, if answer generation fails or yields an answer that is blank,
\* shorter than 150 characters or lacking every time-drift keyword, the
\* answer of the response is exactly the canned time-drift answer.
C13_TimeDriftAnswerIsCanned ==
    (/\ ChatServed
     /\ last.rag_called
     /\ IsTimeDrift(Lower(last.request.message))
     /\ GenerationDefective(last.request, kb))
    => /\ last.status_code = 200
       /\ last.response.answer = TimeDriftAnswer

\* C14: for every kernel-panic query that contains fix, debug or repair and
\* whose original guardrail check blocked, the answer of the response
\* contains the warning suffix that cites the ticket id and tells the user
\* not to modify kernel settings, drivers, or boot parameters.
C14_KernelPanicFixIsWarned ==
    (/\ ChatServed
     /\ IsKernelPanicMessage(last.request.message)
     /\ ContainsAny(Lower(last.request.message), FixWords)
     /\ RawVerdict(last.request).blocked)
    => /\ last.status_code = 200
       /\ last.response.ticketId # None
       /\ Contains(last.response.answer,
              "I've created a support ticket (ID: " \o last.response.ticketId[1] \o ")")
       /\ Contains(last.response.answer,
              "Please do not attempt to modify kernel settings, drivers, or boot parameters.")

\* the dependencies of retrieval and answer generation
RetrievalFaults == {"embedding", "index", "keyword", "llm"}

\* C15: for every combination of failures of the embedding backend, the
\* vector index, the keyword search and the LLM during a chat request, the
\* chat endpoint returns a normal ChatResponse and never the internal-error
\* response.
C15_RetrievalFailuresDegrade ==
    (ChatServed /\ kb.failing \subseteq RetrievalFaults)
    => /\ last.status_code = 200
       /\ last.path # "error"
       /\ DOMAIN last.response = {"answer", "kbReferences", "confidence", "tier",
                                  "severity", "needsEscalation", "guardrail", "ticketId"}
       /\ last.response.tier \in {"TIER_1", "TIER_2", "TIER_3"}
       /\ last.response.confidence \in 0..100

\* a request answered from the template while the LLM call fails, after a
\* request served in the same deployment
C15_Witness ==
    /\ ChatServed
    /\ chats = 2
    /\ kb.failing = {"llm"}
    /\ last.rag_called
    /\ last.path = "answered"
    /\ last.status_code = 200
    /\ last.response.kbReferences # <<>>
    /\ last.response.answer # kb.llm_answer

\* C16: retrieve returns the results of the keyword search whenever the
\* embedding generation fails or the query of the vector index fails; a
\* failure of the vector index never ends retrieval with an empty result
\* where the keyword search would have found chunks.
C16_RetrieveFallsBackToKeywords ==
    (/\ ChatServed
     /\ last.rag_called
     /\ kb.failing \cap {"embedding", "index"} # {})
    => retrieve(kb, last.request.message, 5) = keyword_search(kb, last.request.message, 5)

\* C17: when persisting a ticket or a guardrail event fails, the operation
\* rolls back and re-raises to its caller, so that a chat request whose
\* guardrail-event write fails, like one whose ticket write fails, ends in
\* the internal-error response and returns no ChatResponse.
C17_FailedWritesAreRaised ==
    (ChatServed /\ "event" \in kb.failing)
    => /\ last.status_code = 500
       /\ last.path = "error"

\* C18: after any interleaving of append-message operations, including
\* those of concurrent chat requests on the same conversation, the
\* message_count of every conversation equals the number of messages stored
\* for it, in every state where no append is between its query and its commit.
C18_MessageCountIsCount ==
    (\A w \in DOMAIN handlers : handlers[w].pc # "commit")
    => \A i \in 1..Len(conversations) :
          conversations[i].message_count
              = CountRows(messages, "conversation_id", conversations[i].id)

\* the worker has left get_or_create_conversation
HasConversation(w) == handlers[w].conversation # None

\* the lookup of the worker found nothing and the worker has inserted the
\* conversation it holds
Created(w) ==
    /\ HasConversation(w)
    /\ handlers[w].looked_at < handlers[w].conversation[1].created_at

\* two requests interleave between the lookup and the insert of
\* get-or-create: each looked the session up before the other one inserted
Raced(w1, w2) ==
    /\ Created(w1)
    /\ Created(w2)
    /\ handlers[w1].looked_at < handlers[w2].conversation[1].created_at
    /\ handlers[w2].looked_at < handlers[w1].conversation[1].created_at

\* C19: two chat requests for the same unseen sessionId that interleave
\* between the lookup and the insert of get-or-create each create a
\* Conversation, leaving two Conversations with that sessionId: every request
\* whose lookup found nothing leaves a Conversation of its own. When the
\* requests of a session run one after another at most one Conversation of
\* the sessionId exists: any two requests that both created one have raced.
C19_DuplicateOnlyWhenRaced ==
    \A w \in DOMAIN handlers :
        LET session_id == handlers[w].request.sessionId
            creators == {v \in DOMAIN handlers :
                            /\ handlers[v].request.sessionId = session_id
                            /\ Created(v)}
        IN  /\ CountRows(conversations, "session_id", session_id) = Cardinality(creators)
            /\ \A w1, w2 \in creators :
                  w1 # w2 => /\ handlers[w1].conversation[1].id
                                  # handlers[w2].conversation[1].id
                             /\ Raced(w1, w2)

\* both requests have been served and two conversations of session s1 exist
C19_Witness ==
    /\ DOMAIN handlers # {}
    /\ \A w \in DOMAIN handlers : handlers[w].pc = "done"
    /\ CountRows(conversations, "session_id", "s1") = 2
    /\ \E w1, w2 \in DOMAIN handlers : w1 # w2 /\ Raced(w1, w2)

\* C20: get-or-create for a sessionId that has a Conversation returns the
\* first matching Conversation and changes nothing, whatever role the caller
\* passes: no Conversation is created and user_role and message_count stay
\* as stored; for a sessionId whose lookup found none it creates exactly one
\* Conversation, with message_count 0 and the caller's role.
C20_GetOrCreateFrame ==
    [][ \A w \in DOMAIN handlers :
          /\ (handlers[w].pc = "lookup" /\ handlers'[w].pc # "lookup")
             => LET found == FirstIndex(conversations, "session_id",
                                        handlers[w].request.sessionId)
                IN  /\ conversations' = conversations
                    /\ messages' = messages
                    /\ IF found # 0
                       THEN /\ handlers'[w].pc = "history"
                            /\ handlers'[w].conversation = Some(conversations[found])
                       ELSE /\ handlers'[w].pc = "insert"
                            /\ handlers'[w].conversation = None
          /\ (handlers[w].pc = "insert" /\ handlers'[w].pc # "insert")
             => /\ Len(conversations') = Len(conversations) + 1
                /\ SubSeq(conversations', 1, Len(conversations)) = conversations
                /\ conversations'[Len(conversations')].session_id = handlers[w].request.sessionId
                /\ conversations'[Len(conversations')].user_role = handlers[w].request.userRole
                /\ conversations'[Len(conversations')].message_count = 0
                /\ handlers'[w].conversation = Some(conversations'[Len(conversations')])
                /\ messages' = messages ]_vars

\* a request of an instructor has found the conversation that a trainee's
\* request created and appended to, and the stored role is still trainee
C20_Witness ==
    \E w \in DOMAIN handlers :
        /\ handlers[w].pc = "history"
        /\ handlers[w].request.userRole = "instructor"
        /\ handlers[w].conversation # None
        /\ handlers[w].conversation[1].user_role = "trainee"
        /\ handlers[w].conversation[1].message_count > 0
        /\ handlers[w].conversation[1].created_at <= handlers[w].looked_at
        /\ Len(conversations) = 1
        /\ conversations[1] = handlers[w].conversation[1]

HistoryApplied == call.fn = "get_conversation_history"

\* the messages of the first conversation of the session, oldest first
SessionMessages(session_id) ==
    LET first == FirstIndex(conversations, "session_id", session_id)
        Owned(m) == m.conversation_id = conversations[first].id
    IN  IF first = 0 THEN <<>> ELSE SelectSeq(messages, Owned)

\* C21: get_conversation_history(session_id, limit) returns the
\* min(limit, n) most recently created of the n messages of the session's
\* first matching conversation, oldest first, as {role, content} pairs,
\* returns the empty sequence when no conversation has the session id, and
\* modifies nothing.
C21_HistoryIsRecentTail ==
    [][ (call' # call /\ call'.fn = "get_conversation_history")
        => LET all == SessionMessages(call'.session_id)
               n == Len(all)
               k == Min(call'.limit, n)
               result == call'.result
           IN  /\ Len(result) = k
               /\ \A i \in 1..k :
                     result[i] = [role |-> all[n - k + i].role,
                                  content |-> all[n - k + i].content]
               /\ \A i \in 1..(n - 1) : all[i].created_at < all[i + 1].created_at
               /\ (FirstIndex(conversations, "session_id", call'.session_id) = 0
                      => result = <<>>)
               /\ UNCHANGED <<conversations, messages, tickets, guardrail_events, now>> ]_vars

\* a history of three of the four messages of a session
C21_Witness ==
    /\ HistoryApplied
    /\ call.limit = 3
    /\ Len(SessionMessages(call.session_id)) = 4
    /\ Len(call.result) = 3
    /\ call.result[1].role = "assistant"
    /\ call.result[3].content = messages[Len(messages)].content

-----------------------------------------------------------------------------
(* C22 -- the deflection rate of the summary                               *)

SessionsWithTickets == {tickets[i].session_id : i \in 1..Len(tickets)}

\* C22: a summary reports as deflectionRate the share of the conversations
\* whose session has no ticket, (C - S) / C * 100 with C the number of
\* conversations and S the number of distinct session ids among the tickets,
\* to the nearest hundredth of a percent, and 0 when there is no conversation
C22_DeflectionRateIsRounded ==
    (last.op = "get_metrics_summary" /\ last.status_code = 200) =>
        LET C == Len(conversations)
            S == Cardinality(SessionsWithTickets)
            rate == last.body.deflectionRate
        IN  IF C = 0 THEN rate = 0
            ELSE /\ 2 * (rate * C - 10000 * (C - S)) <= C
                 /\ 2 * (10000 * (C - S) - rate * C) <= C

\* a summary over three conversations of which one has a ticket: 66.67
\* percent
C22_Witness ==
    /\ last.op = "get_metrics_summary"
    /\ Len(conversations) = 3
    /\ Cardinality(SessionsWithTickets) = 1
    /\ last.body.deflectionRate = 6667

-----------------------------------------------------------------------------
(* C23 -- the entries of the trends                                        *)

\* the rows of a table created on a calendar day
CreatedOn(table, day) ==
    {i \in 1..Len(table) : strftime(table[i].created_at) = day}

\* C23: the trends over d days have d + 1 entries, one for each calendar day
\* from d days ago to today, and the entry of a day counts exactly the
\* conversations, the tickets, the blocked guardrail events and the TIER_3
\* tickets created on that calendar day
C23_TrendsCountByCalendarDay ==
    (last.op = "get_metrics_trends" /\ last.status_code = 200) =>
        /\ Len(last.body) = last.days + 1
        /\ \A k \in 1..Len(last.body) :
              LET entry == last.body[k]
              IN  /\ entry.date = strftime(now) - last.days + (k - 1)
                  /\ entry.conversations =
                         Cardinality(CreatedOn(conversations, entry.date))
                  /\ entry.tickets = Cardinality(CreatedOn(tickets, entry.date))
                  /\ entry.guardrailActivations =
                         Cardinality({i \in CreatedOn(guardrail_events, entry.date) :
                                         guardrail_events[i].blocked})
                  /\ entry.escalations =
                         Cardinality({i \in CreatedOn(tickets, entry.date) :
                                         tickets[i].tier = "TIER_3"})

-----------------------------------------------------------------------------
(* C24 -- the two KB stores after an ingestion run                         *)

VectorIds == {kb.chunks[j].id : j \in 1..Len(kb.chunks)}

\* C24: when a run of an ingestion script has ended, whatever failed on the
\* way, every row of kb_chunks has an entry under its id in the vector index
C24_RowsAreIndexed ==
    (ingestion.script # "none" /\ ingestion.closed) =>
        \A i \in 1..Len(kb.rows) : kb.rows[i].id \in VectorIds

-----------------------------------------------------------------------------
(* C25 -- the authoritative document of a KB conflict                      *)

\* the chunks handed over that are relevant to the topic of the query
OnTopicChunks ==
    LET OnTopic(chunk) ==
            IsRelevant(chunk, TopicWords(Lower(call.query)),
                       TopicPhrasesOf(Lower(call.query)))
    IN  SelectSeq(call.context_chunks, OnTopic)

OnTopicKbIds == {OnTopicChunks[i].kb_id : i \in 1..Len(OnTopicChunks)}

\* C25: when the chunks of the topic come from two KB ids with different
\* version numbers, the document of the higher version is declared
\* authoritative, with confidence 0.8, whatever the order of the chunks; when
\* they come from one KB id, the generic answer is given with confidence 0.6
C25_HigherVersionIsAuthoritative ==
    (call.fn = "_handle_kb_conflict" /\ call.done) =>
        /\ (/\ Cardinality(OnTopicKbIds) = 2
            /\ \A i, j \in 1..Len(OnTopicChunks) :
                  OnTopicChunks[i].kb_id # OnTopicChunks[j].kb_id =>
                      OnTopicChunks[i].version.tenths # OnTopicChunks[j].version.tenths)
           => /\ call.result.confidence = 80
              /\ \E i \in 1..Len(OnTopicChunks) :
                    /\ \A j \in 1..Len(OnTopicChunks) :
                          OnTopicChunks[j].version.tenths <= OnTopicChunks[i].version.tenths
                    /\ call.result.kbReferences[1].id = OnTopicChunks[i].kb_id
        /\ Cardinality(OnTopicKbIds) = 1
           => /\ call.result.answer = ConflictGenericAnswer
              /\ call.result.confidence = 60

-----------------------------------------------------------------------------
(* C26 -- three stored reports of "not working"                            *)

\* the positions, among the up to ten most recent stored messages of the
\* session, of those that contain "not working"
NotWorkingAmongRecent(session_id) ==
    LET all == SessionMessages(session_id)
        from == IF Len(all) > 10 THEN Len(all) - 9 ELSE 1
    IN  {i \in from..Len(all) : Contains(Lower(all[i].content), "not working")}

\* C26: a chat request that is classified while at least three of the up to
\* ten most recent messages stored for its session before it, of the user
\* (blocked ones included) or of the assistant, contain "not working", is
\* given tier TIER_3; its own message does not count
C26_ThreeAttemptsAreTier3 ==
    [][ \A request \in AttemptRequests :
            ( /\ chats' = chats + 1
              /\ last'.request = request
              /\ last'.path = "answered"
              /\ Cardinality(NotWorkingAmongRecent(request.sessionId)) >= 3 )
            => /\ last'.response.tier = "TIER_3"
               /\ messages'[Len(messages')].tier = Some("TIER_3") ]_vars

\* a question that holds no "not working" itself, asked after an answered
\* report (the message of the user and the answer both hold it) and a
\* blocked one, is TIER_3
C26_Witness ==
    /\ chats = 3
    /\ last.path = "answered"
    /\ last.request.message = "How do I reset my password?"
    /\ last.response.tier = "TIER_3"
    /\ Len(messages) = 5
    /\ messages[1].role = "user" /\ Contains(Lower(messages[1].content), "not working")
    /\ messages[2].role = "assistant" /\ Contains(Lower(messages[2].content), "not working")
    /\ messages[3].guardrail_blocked /\ Contains(Lower(messages[3].content), "not working")

-----------------------------------------------------------------------------
(* C27 -- the two time-drift repairs on one answer                         *)

\* C27: on a time-drift query, the repair of answer generation and the
\* repair of the chat endpoint decide alike on every answer: both replace it
\* by the canned time-drift answer or both leave it as it is
C27_RepairsAgree ==
    (call.fn = "time_drift_repair" /\ call.done /\ IsTimeDrift(Lower(call.query))) =>
        /\ call.generation \in {call.answer, TimeDriftAnswer}
        /\ call.orchestration \in {call.answer, TimeDriftAnswer}
        /\ (call.generation = call.answer) <=> (call.orchestration = call.answer)

-----------------------------------------------------------------------------
(* C28 -- the ticket of a response                                         *)

\* the tickets a step has added to the table
NewTickets == SubSeq(tickets', Len(tickets) + 1, Len(tickets'))

\* C28: a chat request creates at most one ticket; its response carries a
\* ticketId exactly when it says needsEscalation, and the ticketId is the id
\* of a ticket the request created, stored with the tier and the severity
\* of the response
C28_TicketMatchesResponse ==
    [][ chats' = chats + 1 =>
            /\ Len(NewTickets) <= 1
            /\ last'.status_code = 200 =>
                  /\ (last'.response.ticketId # None) <=> last'.response.needsEscalation
                  /\ last'.response.ticketId # None =>
                        /\ Len(NewTickets) = 1
                        /\ NewTickets[1].id = last'.response.ticketId[1]
                        /\ NewTickets[1].tier = last'.response.tier
                        /\ NewTickets[1].severity = last'.response.severity ]_vars

\* a second escalation: a kernel-panic question answered with a warning and
\* ticket tkt-2, stored as TIER_3 and CRITICAL like the response
C28_Witness ==
    /\ last.op = "chat"
    /\ last.path = "answered"
    /\ last.response.needsEscalation
    /\ last.response.ticketId = Some("tkt-2")
    /\ Len(tickets) = 2
    /\ tickets[2].tier = last.response.tier
    /\ tickets[2].severity = last.response.severity
    /\ last.response.severity = "CRITICAL"

-----------------------------------------------------------------------------
(* C29 -- the assistant message of an answered request                     *)

\* what the classifier returns for the request on the store as it is
Classified(request, backend) ==
    LET attempts == UnresolvedAttempts(
                        get_conversation_history(CurrentDb, request.sessionId, HistoryLimit))
        rag_result == RagResult(request, backend)
    IN  classify_tier_and_severity(request.message, rag_result.confidence,
            analyze_sentiment(request.message, attempts),
            Len(rag_result.kbReferences) > 0, attempts)

\* C29: a request answered on the full path stores as assistant message the
\* answer of retrieval and generation as it was before the passes of the
\* endpoint, with the tier and the severity of the classifier; the time-drift
\* replacement, the kernel-panic pass and the critical and technical answers
\* change the response only
C29_StoredAnswerIsUnrepaired ==
    [][ \A request \in DegradedRequests :
            ( /\ chats' = chats + 1
              /\ last'.request = request
              /\ last'.path = "answered" )
            => LET stored == messages'[Len(messages')]
               IN  /\ Len(messages') = Len(messages) + 2
                   /\ stored.role = "assistant"
                   /\ stored.content = RagResult(request, kb).answer
                   /\ stored.tier = Some(Classified(request, kb).tier)
                   /\ stored.severity = Some(Classified(request, kb).severity) ]_vars

\* a time-drift question for which retrieval finds nothing: the stored
\* message says the issue is not covered, the response holds the canned
\* time-drift answer
C29_Witness ==
    /\ last.op = "chat"
    /\ last.path = "answered"
    /\ IsTimeDrift(Lower(last.request.message))
    /\ messages[Len(messages)].role = "assistant"
    /\ messages[Len(messages)].content = RagResult(last.request, kb).answer
    /\ last.response.answer = TimeDriftAnswer
    /\ messages[Len(messages)].content # TimeDriftAnswer

-----------------------------------------------------------------------------
(* C30 -- what a failed request leaves in the store                        *)

\* table' is table with one more row
OneMore(table, column, value) ==
    /\ Len(table') = Len(table) + 1
    /\ SubSeq(table', 1, Len(table)) = table
    /\ table'[Len(table')][column] = value

\* C30: a chat request that ends in the internal-error response leaves in
\* the store every write made before the step that failed: the conversation
\* and the guardrail event always, the user message when the failure came
\* after it on the full path, and the ticket when the write of the message
\* failed on the blocked path, a ticket whose id no response carries
C30_FailedRequestKeepsWrites ==
    [][ \A request \in DegradedRequests :
            ( /\ chats' = chats + 1
              /\ last'.request = request
              /\ last'.status_code = 500 )
            => /\ \E i \in 1..Len(conversations') :
                     conversations'[i].session_id = request.sessionId
               /\ OneMore(guardrail_events, "message_content", request.message)
               /\ IF "message" \in kb.failing
                  THEN /\ messages' = messages
                       /\ IF ReachesRetrieval(request)
                          THEN tickets' = tickets
                          ELSE OneMore(tickets, "session_id", request.sessionId)
                  ELSE /\ tickets' = tickets
                       /\ IF ReachesRetrieval(request)
                          THEN OneMore(messages, "content", request.message)
                          ELSE messages' = messages ]_vars

\* the only request so far ended in the internal-error response, and its
\* ticket is in the store
C30_Witness ==
    /\ chats = 1
    /\ last.op = "chat"
    /\ last.status_code = 500
    /\ Len(tickets) = 1
    /\ tickets[1].session_id = last.request.sessionId
    /\ Len(conversations) = 1
    /\ Len(guardrail_events) = 1

=============================================================================
